---- MODULE Spec2Model ----
(***************************************************************************)
(* Model of the shopmcp MCP server (src/mcp-server): the TTL cache, the    *)
(* store-slug resolver, the tool dispatcher's request scope and the        *)
(* basket manager with its checkout intent.                                *)
(*                                                                         *)
(* Text the code trims, splices or escapes is modelled as a sequence of    *)
(* tokens, white space, ":" and "/" being tokens of their own (store       *)
(* slugs, variant ids, URLs); product handles and search hints             *)
(* are taken as already trimmed tokens, "" being the blank one.            *)
(***************************************************************************)
EXTENDS Integers, Sequences, FiniteSets, TLC

VARIABLES catalog, baskets, items, last, largs, calls,
          cmax, cttl, cstore, cnow, cused, ctick, cset, clast,
          rlast,
          dprior, dctx, dtoken, dpc, dslug, dexit,
          flast, vlast, klast, elast, alast, tasks, embeds,
          heap, scache, snow, sheld, sstored, slast

vars == << catalog, baskets, items, last, largs, calls,
           cmax, cttl, cstore, cnow, cused, ctick, cset, clast,
           rlast,
           dprior, dctx, dtoken, dpc, dslug, dexit,
           flast, vlast, klast, elast, alast, tasks, embeds,
           heap, scache, snow, sheld, sstored, slast >>

basketVars == << catalog, baskets, items, last, largs, calls >>
cacheVars == << cmax, cttl, cstore, cnow, cused, ctick, cset, clast >>
resolveVars == << rlast >>
dispatchVars == << dprior, dctx, dtoken, dpc, dslug, dexit >>
fuseVars == << flast >>
variantVars == << vlast >>
rankVars == << klast >>
endpointVars == << elast >>
applyVars == << alast >>
taskVars == << tasks >>
embedVars == << embeds >>
searchVars == << heap, scache, snow, sheld, sstored, slast >>

----------------------------------------------------------------------------
(* Bounds of the model *)

MaxBaskets == 2
MaxStoredQty == 160
MaxCalls == 2
MaxTime == 2
MaxCacheOps == 4
MaxRequests == 2
MaxRank == 2
MaxSearches == 2
MaxQueryBytes == 6100
MaxRowBytes == 5000
MinRowBytes == 330
SearchCacheSize == 2
SearchCacheTtl == 1

(* Program constants *)

_BASKET_MAX_QUANTITY == 99
_RRF_K == 60
_MAX_V2_RESULTS == 8
_V2_PAYLOAD_LIMIT_BYTES == 12288

----------------------------------------------------------------------------
(* Text helpers *)

Max(a, b) == IF a >= b THEN a ELSE b
Min(a, b) == IF a <= b THEN a ELSE b

(* None where a token is expected, None where a text is expected, SQL NULL *)
None == "None"
NoneText == << "None" >>
NULL == -1

RECURSIVE LStrip(_)
LStrip(s) == IF s = << >> THEN s
             ELSE IF Head(s) = " " THEN LStrip(Tail(s)) ELSE s

RECURSIVE RStrip(_)
RStrip(s) == IF s = << >> THEN s
             ELSE IF s[Len(s)] = " " THEN RStrip(SubSeq(s, 1, Len(s) - 1)) ELSE s

(* (value or "").strip() *)
Strip(s) == IF s = NoneText THEN << >> ELSE RStrip(LStrip(s))

CharOrd(c) == CASE c = " " -> 0 [] c = "a" -> 1 [] c = "b" -> 2 [] OTHER -> 3

(* text order of the database: s sorts strictly before t *)
RECURSIVE TextLess(_, _)
TextLess(s, t) ==
    IF t = << >> THEN FALSE
    ELSE IF s = << >> THEN TRUE
    ELSE IF CharOrd(Head(s)) # CharOrd(Head(t)) THEN CharOrd(Head(s)) < CharOrd(Head(t))
    ELSE TextLess(Tail(s), Tail(t))

----------------------------------------------------------------------------
(* Catalog: the stores and products tables, owned by the indexer *)

A == << "a" >>
B == << "b" >>

StoreA == [slug |-> A, url |-> << "https://", "a.example", "/" >>, platform |-> "shopify",
           product_count |-> 2, indexed_at |-> 1]
StoreB == [slug |-> B, url |-> << "https://", "b.example" >>, platform |-> "woocommerce",
           product_count |-> 2, indexed_at |-> 2]
StoreB0 == [slug |-> B, url |-> << "https://", "b.example" >>, platform |-> "woocommerce",
            product_count |-> 0, indexed_at |-> NULL]

NoOptions == << >>
NoPrice == [key |-> "none", val |-> 0]

V1 == [id |-> << "gid", ":", "/", "/", "v1" >>, available |-> TRUE, price |-> [key |-> "price_cents", val |-> 1999],
       options |-> << <<"Size", "S">> >>]
V2 == [id |-> << "v2" >>, available |-> FALSE, price |-> [key |-> "price", val |-> 25],
       options |-> << <<"Size", "M">> >>]
V3 == [id |-> << "v3" >>, available |-> TRUE, price |-> NoPrice, options |-> NoOptions]
V1b == [id |-> << "gid", ":", "/", "/", "v1" >>, available |-> TRUE, price |-> [key |-> "price_cents", val |-> 700],
        options |-> NoOptions]
V0 == [id |-> << " " >>, available |-> TRUE, price |-> NoPrice, options |-> NoOptions]

TeeA == [store_slug |-> A, handle |-> "tee", title |-> "Tee", url |-> << "/", "products/tee" >>,
         price_min |-> 1999, variants |-> << V1, V2 >>, fts |-> {"tee"}, like |-> {"tee"}]
CapA == [store_slug |-> A, handle |-> "cap", title |-> "Cap", url |-> << "products/cap" >>,
         price_min |-> 500, variants |-> << V3 >>, fts |-> {}, like |-> {"cap"}]
TeeB == [store_slug |-> B, handle |-> "tee", title |-> "Tee", url |-> << "https://", "b.example", "/", "p/tee" >>,
         price_min |-> 700, variants |-> << V1b >>, fts |-> {"tee"}, like |-> {"tee"}]
MugB == [store_slug |-> B, handle |-> "mug", title |-> "Big Mug", url |-> << >>,
         price_min |-> NULL, variants |-> << V0 >>, fts |-> {"mug", "tee"}, like |-> {"mug", " "}]

(* A product whose one variant gives its price under the key "price", as *)
(* the integer 1999, and one that gives it under the key "price_cents"   *)
VR == [id |-> << "gid", ":", "/", "/", "v1" >>, available |-> TRUE, price |-> [key |-> "price", val |-> 1999],
       options |-> NoOptions]
VC == [id |-> << "gid", ":", "/", "/", "v2" >>, available |-> TRUE, price |-> [key |-> "price_cents", val |-> 1999],
       options |-> NoOptions]
RedTee == [store_slug |-> A, handle |-> "red-tee", title |-> "Red Tee", url |-> << "products/red-tee" >>,
           price_min |-> 1999, variants |-> << VR >>, fts |-> {"red-tee"}, like |-> {"red-tee"}]
BlueTee == [store_slug |-> A, handle |-> "blue-tee", title |-> "Blue Tee", url |-> << "products/blue-tee" >>,
            price_min |-> 1999, variants |-> << VC >>, fts |-> {"blue-tee"}, like |-> {"blue-tee"}]

(* The catalogs considered, by name: the rows of stores and of products *)
Catalogs == { "full", "empty", "one", "unindexed", "bare" }

Stores(c) == CASE c = "full" -> {StoreA, StoreB}
               [] c = "empty" -> {}
               [] c = "one" -> {StoreA}
               [] c = "unindexed" -> {StoreA, StoreB0}
               [] c = "bare" -> {StoreB0}
               [] c = "acme" -> {StoreA}

Products(c) == CASE c = "full" -> {TeeA, CapA, TeeB, MugB}
                 [] c = "empty" -> {}
                 [] c = "one" -> {TeeA, CapA}
                 [] c = "unindexed" -> {TeeA, CapA}
                 [] c = "bare" -> {}
                 [] c = "acme" -> {RedTee, BlueTee}

----------------------------------------------------------------------------
(* Store-slug resolver *)

SlugsOf(rows) == { r.store_slug : r \in rows }

MatchCount(rows, s) == Cardinality({ r \in rows : r.store_slug = s })

(* group by store_slug order by matches desc, store_slug asc limit 1 *)
TopStoreByMatches(rows) ==
    CHOOSE s \in SlugsOf(rows) :
        \A t \in SlugsOf(rows) \ {s} :
            \/ MatchCount(rows, s) > MatchCount(rows, t)
            \/ MatchCount(rows, s) = MatchCount(rows, t) /\ TextLess(s, t)

(* order by product_count desc, indexed_at desc nulls last, slug asc limit 1 *)
TopPreferredStore(S) ==
    CHOOSE s \in S :
        \A t \in S \ {s} :
            \/ s.product_count > t.product_count
            \/ s.product_count = t.product_count /\ s.indexed_at > t.indexed_at
            \/ s.product_count = t.product_count /\ s.indexed_at = t.indexed_at
               /\ TextLess(s.slug, t.slug)

(* order by indexed_at desc nulls last, slug asc limit 1 *)
TopRecentStore(S) ==
    CHOOSE s \in S :
        \A t \in S \ {s} :
            \/ s.indexed_at > t.indexed_at
            \/ s.indexed_at = t.indexed_at /\ TextLess(s.slug, t.slug)

Resolved(kind, slug) == [kind |-> kind, slug |-> slug]

(* (query_hint or "").strip() on a hint of one word or of spaces only *)
StripHint(query_hint) == IF query_hint \in { None, "", " " } THEN "" ELSE query_hint

(* The two store probes that are not wrapped in try/except. *)
StoreProbes(S, fail) ==
    LET preferred == { s \in S : s.product_count > 0 }
    IN  IF "preferred" \in fail THEN Resolved("raise_db", << >>)
        ELSE IF preferred # {} /\ TopPreferredStore(preferred).slug # << >>
             THEN Resolved("preferred", TopPreferredStore(preferred).slug)
        ELSE IF "fallback" \in fail THEN Resolved("raise_db", << >>)
        ELSE IF S # {} /\ TopRecentStore(S).slug # << >>
             THEN Resolved("fallback", TopRecentStore(S).slug)
        ELSE Resolved("raise_no_stores", << >>)

(* _auto_select_store_slug asking the fuzzy probe before the full-text one *)
_auto_select_store_slug_fuzzy_first(S, P, query_hint, fail) ==
    LET hint == StripHint(query_hint)
        fts_rows == { p \in P : hint \in p.fts }
        fuzzy_rows == { p \in P : hint \in p.like }
    IN  IF hint # "" /\ "fuzzy" \notin fail /\ fuzzy_rows # {}
           /\ TopStoreByMatches(fuzzy_rows) # << >>
        THEN Resolved("fuzzy", TopStoreByMatches(fuzzy_rows))
        ELSE IF hint # "" /\ "fts" \notin fail /\ fts_rows # {}
                /\ TopStoreByMatches(fts_rows) # << >>
        THEN Resolved("fts", TopStoreByMatches(fts_rows))
        ELSE StoreProbes(S, fail)

_auto_select_store_slug(S, P, query_hint, fail) ==
    LET hint == StripHint(query_hint)
        fts_rows == { p \in P : hint \in p.fts }
        fuzzy_rows == { p \in P : hint \in p.like }
    IN  IF hint # "" /\ "fts" \notin fail /\ fts_rows # {}
           /\ TopStoreByMatches(fts_rows) # << >>
        THEN Resolved("fts", TopStoreByMatches(fts_rows))
        ELSE IF hint # "" /\ "fuzzy" \notin fail /\ fuzzy_rows # {}
                /\ TopStoreByMatches(fuzzy_rows) # << >>
        THEN Resolved("fuzzy", TopStoreByMatches(fuzzy_rows))
        ELSE StoreProbes(S, fail)

(* _resolve_store_slug asking the request scope first *)
_resolve_store_slug_scope_first(S, P, slug, scope, query_hint, fail) ==
    LET explicit == Strip(slug)
        scoped == Strip(scope)
    IN  IF scoped # << >> THEN Resolved("scoped", scoped)
        ELSE IF explicit # << >> THEN Resolved("explicit", explicit)
        ELSE _auto_select_store_slug(S, P, query_hint, fail)

_resolve_store_slug(S, P, slug, scope, query_hint, fail) ==
    LET explicit == Strip(slug)
        scoped == Strip(scope)
    IN  IF explicit # << >> THEN Resolved("explicit", explicit)
        ELSE IF scoped # << >> THEN Resolved("scoped", scoped)
        ELSE _auto_select_store_slug(S, P, query_hint, fail)

Raised(r) == r.kind \in {"raise_db", "raise_no_stores"}

----------------------------------------------------------------------------
(* Value helpers of tools/registry.py *)

_bounded_quantity(value) == Max(1, Min(_BASKET_MAX_QUANTITY, value))

(* _line_total dropping the quantity *)
_line_total_of_one(unit_price, quantity) == Max(0, unit_price)

_line_total(unit_price, quantity) == Max(0, unit_price) * Max(0, quantity)

(* _to_cents on an integer or NULL *)
_to_cents(value, assume_cents_for_int) ==
    IF value = NULL THEN NULL
    ELSE IF assume_cents_for_int THEN value ELSE value * 100

_variant_price(variant) ==
    IF variant.price.key = "price_cents" THEN _to_cents(variant.price.val, TRUE)
    ELSE IF variant.price.key = "price" THEN _to_cents(variant.price.val, FALSE)
    ELSE NULL

_variant_available_always(variant) == TRUE

_variant_available(variant) == variant.available

(* str(variant.get("id") or variant.get("variant_id") or "") *)
_variant_id(variant) == IF variant.id = NoneText THEN << >> ELSE variant.id

Lower(t) == CASE t = "Size" -> "size" [] t = "SIZE" -> "size"
              [] t = "S" -> "s" [] t = "M" -> "m" [] OTHER -> t

(* options as a sequence of <<name, value>> pairs; later pairs overwrite *)
_normalize_options(options) ==
    { << Lower(options[i][1]), Lower(options[i][2]) >> : i \in
        { j \in 1..Len(options) :
            /\ options[j][1] # "" /\ options[j][2] # ""
            /\ \A k \in (j + 1)..Len(options) :
                  Lower(options[k][1]) # Lower(options[j][1])
                  \/ options[k][2] = "" } }

_variant_options(variant) == variant.options

NoVariant == [id |-> NoneText, available |-> FALSE, price |-> NoPrice, options |-> NoOptions]

(* next(i for i in S), the first position of a set of positions, 0 for none *)
(* the last position of a set of positions *)
LastOf(hits) == IF hits = {} THEN 0 ELSE CHOOSE i \in hits : \A j \in hits : i >= j

FirstOf(hits) == IF hits = {} THEN 0 ELSE CHOOSE i \in hits : \A j \in hits : i <= j

_resolve_variant_for_cart(product, variant_id, options) ==
    LET variants == product.variants
        requested_variant_id == Strip(variant_id)
        requested_options == _normalize_options(options)
        by_id == { i \in 1..Len(variants) : _variant_id(variants[i]) = requested_variant_id }
        by_options == { i \in 1..Len(variants) :
                          requested_options \subseteq
                              _normalize_options(_variant_options(variants[i])) }
        available_variants == { i \in 1..Len(variants) : _variant_available(variants[i]) }
    IN  IF Len(variants) = 0 THEN [variant |-> NoVariant, reason |-> "no_variants"]
        ELSE IF requested_variant_id # << >>
        THEN IF by_id # {}
             THEN [variant |-> variants[FirstOf(by_id)], reason |-> None]
             ELSE [variant |-> NoVariant, reason |-> "variant_not_found"]
        ELSE IF requested_options # {}
        THEN IF by_options # {}
             THEN [variant |-> variants[FirstOf(by_options)], reason |-> None]
             ELSE [variant |-> NoVariant, reason |-> "options_not_found"]
        ELSE IF Cardinality(available_variants) = 1
        THEN [variant |-> variants[FirstOf(available_variants)], reason |-> None]
        ELSE IF Len(variants) = 1
        THEN [variant |-> variants[1], reason |-> None]
        ELSE [variant |-> NoVariant, reason |-> "variant_selection_required"]

RECURSIVE RStripSlash(_)
RStripSlash(s) == IF s = << >> THEN s
                  ELSE IF s[Len(s)] = "/" THEN RStripSlash(SubSeq(s, 1, Len(s) - 1)) ELSE s

_canonical_product_url(raw_url, store_url) ==
    LET text == Strip(raw_url)
        base == RStripSlash(Strip(store_url))
    IN  IF text = << >> THEN << >>
        ELSE IF Head(text) \in {"http://", "https://", "HTTPS://"} THEN text
        ELSE IF Len(text) >= 2 /\ text[1] = "/" /\ text[2] = "/" THEN << "https:" >> \o text
        ELSE IF base # << >>
        THEN IF Head(text) = "/" THEN base \o text ELSE base \o << "/" >> \o text
        ELSE text

(* select url from stores where slug = $1 *)
_store_url_for_slug(S, store_slug) ==
    IF \E st \in S : st.slug = store_slug
    THEN Strip((CHOOSE st \in S : st.slug = store_slug).url)
    ELSE NoneText

(* select ... from products where store_slug = $1 and handle = $2 limit 1 *)
_find_by_handle(P, store_slug, handle) ==
    { p \in P : p.store_slug = store_slug /\ p.handle = handle }

----------------------------------------------------------------------------
(* Basket manager.  db is the pair of tables [baskets, items]: baskets is  *)
(* the sequence of basket rows, the basket id being the index; items[b]    *)
(* is the sequence of basket_items rows of basket b in added_at order.     *)
(* The field via of a line is history: the store slug resolved by the      *)
(* add_to_basket call that last wrote the line.                            *)

NoBasket == 0
Stamp == 1
NoPayload == [basket_id |-> NoBasket]
EmptyUrl == [base |-> << >>, lines |-> << >>]

BasketExists(db, b) == b \in 1..Len(db.baskets)

LineIndex(lines, variant_id) ==
    LET hits == { i \in 1..Len(lines) : lines[i].variant_id = variant_id }
    IN  IF hits = {} THEN 0 ELSE CHOOSE i \in hits : TRUE

RECURSIVE SumSeq(_)
SumSeq(q) == IF q = << >> THEN 0 ELSE Head(q) + SumSeq(Tail(q))

DeleteAt(seq, i) == SubSeq(seq, 1, i - 1) \o SubSeq(seq, i + 1, Len(seq))

(* _ensure_basket without the comparison of the basket's store *)
_ensure_basket_any_store(db, store_slug, basket_id) ==
    IF basket_id # NoBasket
    THEN IF ~BasketExists(db, basket_id)
         THEN [ok |-> FALSE, id |-> NoBasket, db |-> db]
         ELSE IF db.baskets[basket_id].status # "active"
         THEN [ok |-> FALSE, id |-> NoBasket, db |-> db]
         ELSE [ok |-> TRUE, id |-> basket_id, db |-> db]
    ELSE [ok |-> TRUE, id |-> Len(db.baskets) + 1,
          db |-> [baskets |-> Append(db.baskets,
                                     [store_slug |-> store_slug, status |-> "active",
                                      checkout_url |-> EmptyUrl, checked_out_at |-> NULL]),
                  items |-> Append(db.items, << >>)]]

(* Outcome of _ensure_basket: the basket id, or the RuntimeError raised *)
_ensure_basket(db, store_slug, basket_id) ==
    IF basket_id # NoBasket
    THEN IF ~BasketExists(db, basket_id)
         THEN [ok |-> FALSE, id |-> NoBasket, db |-> db]
         ELSE IF /\ Strip(db.baskets[basket_id].store_slug) # << >>
                 /\ Strip(db.baskets[basket_id].store_slug) # store_slug
         THEN [ok |-> FALSE, id |-> NoBasket, db |-> db]
         ELSE IF db.baskets[basket_id].status # "active"
         THEN [ok |-> FALSE, id |-> NoBasket, db |-> db]
         ELSE [ok |-> TRUE, id |-> basket_id, db |-> db]
    ELSE [ok |-> TRUE, id |-> Len(db.baskets) + 1,
          db |-> [baskets |-> Append(db.baskets,
                                     [store_slug |-> store_slug, status |-> "active",
                                      checkout_url |-> EmptyUrl, checked_out_at |-> NULL]),
                  items |-> Append(db.items, << >>)]]

(* _set_basket_checkout taking the first branch whatever mark_checked_out *)
(* _set_basket_checkout leaving checked_out_at as it is *)
_set_basket_checkout_unstamped(db, basket_id, checkout_url, mark_checked_out) ==
    IF mark_checked_out
    THEN [db EXCEPT !.baskets[basket_id].status = "checked_out",
                    !.baskets[basket_id].checkout_url = checkout_url]
    ELSE [db EXCEPT !.baskets[basket_id].checkout_url = checkout_url]

_set_basket_checkout_always(db, basket_id, checkout_url, mark_checked_out) ==
    [db EXCEPT !.baskets[basket_id].status = "checked_out",
               !.baskets[basket_id].checkout_url = checkout_url,
               !.baskets[basket_id].checked_out_at = Stamp]

_set_basket_checkout(db, basket_id, checkout_url, mark_checked_out) ==
    IF mark_checked_out
    THEN [db EXCEPT !.baskets[basket_id].status = "checked_out",
                    !.baskets[basket_id].checkout_url = checkout_url,
                    !.baskets[basket_id].checked_out_at = Stamp]
    ELSE [db EXCEPT !.baskets[basket_id].checkout_url = checkout_url]

ItemPayload(row) ==
    LET unit_price == IF _to_cents(row.unit_price, TRUE) = NULL THEN 0
                      ELSE _to_cents(row.unit_price, TRUE)
        quantity == Max(1, IF row.quantity = 0 THEN 1 ELSE row.quantity)
    IN  [variant_id |-> row.variant_id, handle |-> row.product_handle,
         url |-> row.product_url, unit_price |-> unit_price, quantity |-> quantity,
         line_total |-> _line_total(unit_price, quantity), available |-> row.available]

(* the basket payload, or NoPayload for None *)
_fetch_basket(db, basket_id, expected_store_slug) ==
    IF ~BasketExists(db, basket_id) THEN NoPayload
    ELSE LET row == db.baskets[basket_id]
             store_slug == Strip(row.store_slug)
             rows == db.items[basket_id]
             lines == [i \in 1..Len(rows) |-> ItemPayload(rows[i])]
         IN  IF /\ expected_store_slug # NoneText /\ expected_store_slug # << >>
                /\ store_slug # << >> /\ store_slug # expected_store_slug
             THEN NoPayload
             ELSE [basket_id |-> basket_id, store_slug |-> store_slug,
                   status |-> row.status, checkout_url |-> row.checkout_url,
                   checked_out_at |-> row.checked_out_at,
                   item_count |-> Len(lines),
                   quantity_total |-> SumSeq([i \in 1..Len(lines) |-> lines[i].quantity]),
                   subtotal |-> SumSeq([i \in 1..Len(lines) |-> lines[i].line_total]),
                   items |-> lines]

(* Outcome of a tool call: the tables after it and what it returned.      *)
(* code is "ok" for a result without error, "raise" for an exception.     *)
Outcome(db, code, store_slug, basket_id, payload) ==
    [db |-> db, code |-> code, store_slug |-> store_slug,
     basket_id |-> basket_id, payload |-> payload,
     checkout_url |-> EmptyUrl, line_index |-> 0, added_count |-> 0,
     product_urls |-> << >>]

(* insert into basket_items ... on conflict (basket_id, variant_id) do update *)
UpsertLine(db, basket_id, line) ==
    LET lines == db.items[basket_id]
        i == LineIndex(lines, line.variant_id)
    IN  IF i = 0
        THEN [db EXCEPT !.items[basket_id] = Append(lines, line)]
        ELSE [db EXCEPT !.items[basket_id][i] =
                 [line EXCEPT !.quantity = lines[i].quantity + line.quantity]]

(* the reply of a write: the refreshed basket, or the RuntimeError when *)
(* the basket cannot be loaded                                         *)
Refreshed(after, store_slug, basket_id, payload) ==
    IF payload = NoPayload THEN Outcome(after, "raise", store_slug, basket_id, NoPayload)
    ELSE Outcome(after, "ok", store_slug, basket_id, payload)

Refetch(after, store_slug, basket_id) ==
    Refreshed(after, store_slug, basket_id, _fetch_basket(after, basket_id, store_slug))

(* _add_to_basket from _ensure_basket on: the upsert and the reply *)
AddLine(db, store_slug, ensured, line) ==
    IF ~ensured.ok THEN Outcome(db, "basket_scope_error", store_slug, NoBasket, NoPayload)
    ELSE Refetch(UpsertLine(ensured.db, ensured.id, line), store_slug, ensured.id)

(* _add_to_basket from the selected variant on *)
AddVariant(db, store_slug, store_url, handle, quantity_value, basket_id, product, sel) ==
    LET selected_variant == sel.variant
        resolved_variant_id == Strip(_variant_id(selected_variant))
        unit_price == IF _variant_price(selected_variant) # NULL
                      THEN _variant_price(selected_variant)
                      ELSE IF _to_cents(product.price_min, TRUE) = NULL THEN 0
                      ELSE _to_cents(product.price_min, TRUE)
    IN
    IF sel.reason # None THEN Outcome(db, sel.reason, store_slug, NoBasket, NoPayload)
    ELSE IF resolved_variant_id = << >>
    THEN Outcome(db, "missing_variant_id", store_slug, NoBasket, NoPayload)
    ELSE IF ~_variant_available(selected_variant)
    THEN Outcome(db, "variant_unavailable", store_slug, NoBasket, NoPayload)
    ELSE AddLine(db, store_slug, _ensure_basket(db, store_slug, basket_id),
                 [variant_id |-> resolved_variant_id, product_handle |-> handle,
                  product_title |-> product.title,
                  product_url |-> _canonical_product_url(product.url, store_url),
                  options |-> _variant_options(selected_variant),
                  unit_price |-> unit_price, quantity |-> quantity_value,
                  available |-> _variant_available(selected_variant),
                  via |-> store_slug])

(* _add_to_basket from the resolved store r on *)
AddInStore(db, S, P, handle, quantity, options, variant_id, basket_id, r) ==
    LET found == _find_by_handle(P, r.slug, handle)
    IN
    IF Raised(r) THEN Outcome(db, "raise", << >>, NoBasket, NoPayload)
    ELSE IF found = {} THEN Outcome(db, "product_not_found", r.slug, NoBasket, NoPayload)
    ELSE AddVariant(db, r.slug, _store_url_for_slug(S, r.slug), handle,
                    _bounded_quantity(quantity), basket_id, CHOOSE p \in found : TRUE,
                    _resolve_variant_for_cart(CHOOSE p \in found : TRUE, variant_id, options))

_add_to_basket(db, S, P, handle, quantity, options, variant_id, basket_id, slug, scope) ==
    IF handle = "" THEN Outcome(db, "invalid_handle", << >>, NoBasket, NoPayload)
    ELSE IF quantity <= 0 THEN Outcome(db, "invalid_quantity", << >>, NoBasket, NoPayload)
    ELSE AddInStore(db, S, P, handle, quantity, options, variant_id, basket_id,
                    _resolve_store_slug(S, P, slug, scope, handle, {}))

(* the RuntimeError of _resolve_basket_scope *)
NoScope == [ok |-> FALSE, id |-> NoBasket, slug |-> << >>]

(* _resolve_basket_scope from the basket header on; candidate is the slug *)
(* resolved for the call, read only under an explicit slug                *)
BasketScope(db, basket_id, slug, allow_checked_out, candidate) ==
    LET basket_store_slug == Strip(db.baskets[basket_id].store_slug)
        status == db.baskets[basket_id].status
    IN
    IF basket_store_slug = << >> THEN NoScope
    ELSE IF Strip(slug) # << >> /\ candidate.slug # basket_store_slug
    THEN [ok |-> FALSE, id |-> NoBasket, slug |-> candidate.slug]
    ELSE IF status # "active" /\ ~(allow_checked_out /\ status = "checked_out")
    THEN [ok |-> FALSE, id |-> NoBasket, slug |-> basket_store_slug]
    ELSE [ok |-> TRUE, id |-> basket_id, slug |-> basket_store_slug]

(* Outcome of _resolve_basket_scope: (basket id, slug) or the RuntimeError *)
_resolve_basket_scope(db, S, P, basket_id, slug, scope, allow_checked_out) ==
    IF basket_id = NoBasket THEN NoScope
    ELSE IF ~BasketExists(db, basket_id) THEN NoScope
    ELSE BasketScope(db, basket_id, slug, allow_checked_out,
                     _resolve_store_slug(S, P, slug, scope, None, {}))

(* _get_basket from the expected slug on *)
BasketReply(db, basket_id, expected_slug) ==
    LET basket_payload == _fetch_basket(db, basket_id, expected_slug)
        shown == IF expected_slug = NoneText THEN << >> ELSE expected_slug
    IN  IF basket_payload = NoPayload
        THEN Outcome(db, "basket_not_found", shown, basket_id, NoPayload)
        ELSE Outcome(db, "ok", shown, basket_id, basket_payload)

_get_basket(db, S, P, basket_id, slug, scope) ==
    IF basket_id = NoBasket THEN Outcome(db, "invalid_basket_id", << >>, NoBasket, NoPayload)
    ELSE BasketReply(db, basket_id,
                     IF Strip(slug) # << >>
                     THEN _resolve_store_slug(S, P, slug, scope, None, {}).slug
                     ELSE NoneText)

(* _update_basket_item from the resolved scope sc on *)
(* the update adding the quantity to the one on the line *)
UpdateLine_accumulate(db, variant_id_text, quantity, sc) ==
    LET i == LineIndex(db.items[sc.id], variant_id_text)
    IN
    IF ~sc.ok THEN Outcome(db, "basket_scope_error", sc.slug, NoBasket, NoPayload)
    ELSE IF quantity > 0 /\ i = 0
    THEN Outcome(db, "basket_line_not_found", sc.slug, sc.id, NoPayload)
    ELSE Refetch(IF i = 0 THEN db
                 ELSE IF quantity <= 0
                 THEN [db EXCEPT !.items[sc.id] = DeleteAt(@, i)]
                 ELSE [db EXCEPT !.items[sc.id][i].quantity =
                                    _bounded_quantity(@ + quantity)],
                 sc.slug, sc.id)

UpdateLine(db, variant_id_text, quantity, sc) ==
    LET i == LineIndex(db.items[sc.id], variant_id_text)
    IN
    IF ~sc.ok THEN Outcome(db, "basket_scope_error", sc.slug, NoBasket, NoPayload)
    ELSE IF quantity > 0 /\ i = 0
    THEN Outcome(db, "basket_line_not_found", sc.slug, sc.id, NoPayload)
    ELSE Refetch(IF i = 0 THEN db
                 ELSE IF quantity <= 0
                 THEN [db EXCEPT !.items[sc.id] = DeleteAt(@, i)]
                 ELSE [db EXCEPT !.items[sc.id][i].quantity = _bounded_quantity(quantity)],
                 sc.slug, sc.id)

_update_basket_item(db, S, P, basket_id, variant_id, quantity, slug, scope) ==
    IF Strip(variant_id) = << >>
    THEN Outcome(db, "invalid_variant_id", << >>, NoBasket, NoPayload)
    ELSE UpdateLine(db, Strip(variant_id), quantity,
                    _resolve_basket_scope(db, S, P, basket_id, slug, scope, FALSE))

_remove_from_basket_quantity_one(db, S, P, basket_id, variant_id, slug, scope) ==
    _update_basket_item(db, S, P, basket_id, variant_id, 1, slug, scope)

_remove_from_basket(db, S, P, basket_id, variant_id, slug, scope) ==
    _update_basket_item(db, S, P, basket_id, variant_id, 0, slug, scope)

(* _clear_basket from the resolved scope sc on *)
ClearLines(db, sc) ==
    IF ~sc.ok THEN Outcome(db, "basket_scope_error", sc.slug, NoBasket, NoPayload)
    ELSE Refetch([db EXCEPT !.items[sc.id] = << >>], sc.slug, sc.id)

_clear_basket(db, S, P, basket_id, slug, scope) ==
    ClearLines(db, _resolve_basket_scope(db, S, P, basket_id, slug, scope, FALSE))

(* urllib.parse.quote(text, safe=""), token by token *)
QuoteToken(t) == CASE t = ":" -> "%3A" [] t = "/" -> "%2F" [] t = " " -> "%20" [] OTHER -> t

quote(text) == [i \in 1..Len(text) |-> QuoteToken(text[i])]

(* the lines whose variant id is blank (blank = TRUE) or is not *)
RECURSIVE LinesByVariantId(_, _)
LinesByVariantId(lines, blank) ==
    IF lines = << >> THEN << >>
    ELSE IF (Strip(Head(lines).variant_id) = << >>) = blank
    THEN << Head(lines) >> \o LinesByVariantId(Tail(lines), blank)
    ELSE LinesByVariantId(Tail(lines), blank)

(* The permalink base/cart/id:qty,id:qty as its base and its segments; *)
(* EmptyUrl is the empty string.                                        *)
_shopify_checkout_url(store_url, lines) ==
    LET base == RStripSlash(Strip(store_url))
        kept == LinesByVariantId(lines, FALSE)
        encoded_lines == [i \in 1..Len(kept) |->
                            [variant_id |-> quote(Strip(kept[i].variant_id)),
                             quantity |-> _bounded_quantity(kept[i].quantity)]]
    IN  IF base = << >> THEN EmptyUrl
        ELSE IF encoded_lines = << >> THEN EmptyUrl
        ELSE [base |-> base \o << "/cart/" >>, lines |-> encoded_lines]

(* select slug, url, platform from stores where slug = $1 *)
_store_meta_for_slug(S, store_slug) == { st \in S : st.slug = store_slug }

(* [str(item.get("url") or "") for item in basket_items if ...] *)
RECURSIVE ProductUrls(_)
ProductUrls(lines) ==
    IF lines = << >> THEN << >>
    ELSE IF Head(lines).url # << >> THEN << Head(lines).url >> \o ProductUrls(Tail(lines))
    ELSE ProductUrls(Tail(lines))

(* the reply of _create_checkout_intent after _set_basket_checkout *)
CheckoutSaved(after, sc, checkout_url, refreshed) ==
    IF refreshed = NoPayload THEN Outcome(after, "raise", sc.slug, sc.id, NoPayload)
    ELSE [Outcome(after, "ok", sc.slug, sc.id, refreshed) EXCEPT !.checkout_url = checkout_url]

CheckoutSave(after, sc, checkout_url) ==
    CheckoutSaved(after, sc, checkout_url, _fetch_basket(after, sc.id, sc.slug))

(* _create_checkout_intent from the built URL on *)
CheckoutBuilt(db, sc, checkout_url, mark_checked_out) ==
    IF checkout_url = EmptyUrl
    THEN Outcome(db, "checkout_url_build_failed", sc.slug, sc.id, NoPayload)
    ELSE CheckoutSave(_set_basket_checkout(db, sc.id, checkout_url, mark_checked_out),
                      sc, checkout_url)

(* _create_checkout_intent from the store row on *)
(* the permalink built for a store of any platform *)
CheckoutInStore_any_platform(db, sc, basket_payload, store_meta, mark_checked_out) ==
    IF LinesByVariantId(basket_payload.items, TRUE) # << >>
    THEN Outcome(db, "missing_variant_ids", sc.slug, sc.id, basket_payload)
    ELSE CheckoutBuilt(db, sc, _shopify_checkout_url(store_meta.url, basket_payload.items),
                       mark_checked_out)

CheckoutInStore(db, sc, basket_payload, store_meta, mark_checked_out) ==
    IF store_meta.platform # "shopify"
    THEN [Outcome(db, "unsupported_platform", sc.slug, sc.id, basket_payload)
            EXCEPT !.product_urls = ProductUrls(basket_payload.items)]
    ELSE IF LinesByVariantId(basket_payload.items, TRUE) # << >>
    THEN Outcome(db, "missing_variant_ids", sc.slug, sc.id, basket_payload)
    ELSE CheckoutBuilt(db, sc, _shopify_checkout_url(store_meta.url, basket_payload.items),
                       mark_checked_out)

(* _create_checkout_intent from the loaded basket on *)
(* the checkout intent without the test for a basket without lines *)
CheckoutBasket_lines_or_not(db, S, sc, basket_payload, mark_checked_out) ==
    IF basket_payload = NoPayload THEN Outcome(db, "raise", sc.slug, sc.id, NoPayload)
    ELSE IF _store_meta_for_slug(S, sc.slug) = {}
    THEN Outcome(db, "raise", sc.slug, sc.id, NoPayload)
    ELSE CheckoutInStore(db, sc, basket_payload,
                         CHOOSE st \in _store_meta_for_slug(S, sc.slug) : TRUE,
                         mark_checked_out)

CheckoutBasket(db, S, sc, basket_payload, mark_checked_out) ==
    IF basket_payload = NoPayload THEN Outcome(db, "raise", sc.slug, sc.id, NoPayload)
    ELSE IF basket_payload.items = << >>
    THEN Outcome(db, "empty_basket", sc.slug, sc.id, NoPayload)
    ELSE IF _store_meta_for_slug(S, sc.slug) = {}
    THEN Outcome(db, "raise", sc.slug, sc.id, NoPayload)
    ELSE CheckoutInStore(db, sc, basket_payload,
                         CHOOSE st \in _store_meta_for_slug(S, sc.slug) : TRUE,
                         mark_checked_out)

(* _create_checkout_intent from the resolved scope sc on *)
CheckoutScoped(db, S, sc, mark_checked_out) ==
    IF ~sc.ok THEN Outcome(db, "basket_scope_error", sc.slug, NoBasket, NoPayload)
    ELSE CheckoutBasket(db, S, sc, _fetch_basket(db, sc.id, sc.slug), mark_checked_out)

_create_checkout_intent(db, S, P, basket_id, slug, scope, mark_checked_out) ==
    CheckoutScoped(db, S, _resolve_basket_scope(db, S, P, basket_id, slug, scope, TRUE),
                   mark_checked_out)

_get_checkout_link(db, S, P, basket_id, slug, scope) ==
    _create_checkout_intent(db, S, P, basket_id, slug, scope, FALSE)

(* the slug _checkout_items carries to the next item *)
NextSlug(add_result, active_slug) ==
    IF Strip(add_result.store_slug) # << >> THEN Strip(add_result.store_slug)
    ELSE IF Strip(active_slug) # << >> THEN Strip(active_slug)
    ELSE NoneText

(* the final step of _checkout_items: the checkout intent of the basket *)
CheckoutItemsDone(checkout_result, added) == [checkout_result EXCEPT !.added_count = added]

(* The loop of _checkout_items over items[index..]; added counts added_items *)
RECURSIVE CheckoutItemsFrom(_, _, _, _, _, _, _, _, _, _)

(* one turn of the loop with the failing item counted from zero *)
CheckoutItemAdded_zero_based(db, S, P, item_rows, index, active_slug, active_basket_id, added, scope, mark_checked_out, add_result) ==
    IF add_result.code = "raise" THEN add_result
    ELSE IF add_result.code # "ok"
    THEN [add_result EXCEPT !.line_index = index - 1, !.added_count = added,
                            !.basket_id = active_basket_id]
    ELSE CheckoutItemsFrom(add_result.db, S, P, item_rows, index + 1,
                           NextSlug(add_result, active_slug),
                           add_result.basket_id, added + 1, scope, mark_checked_out)

(* one turn of the loop, from the result of _add_to_basket on; an *)
(* exception of _add_to_basket leaves the loop as it is           *)
CheckoutItemAdded(db, S, P, item_rows, index, active_slug, active_basket_id, added, scope, mark_checked_out, add_result) ==
    IF add_result.code = "raise" THEN add_result
    ELSE IF add_result.code # "ok"
    THEN [add_result EXCEPT !.line_index = index, !.added_count = added,
                            !.basket_id = active_basket_id]
    ELSE CheckoutItemsFrom(add_result.db, S, P, item_rows, index + 1,
                           NextSlug(add_result, active_slug),
                           add_result.basket_id, added + 1, scope, mark_checked_out)

CheckoutItemsFrom(db, S, P, item_rows, index, active_slug, active_basket_id, added, scope, mark_checked_out) ==
    IF index > Len(item_rows)
    THEN IF active_basket_id = NoBasket
         THEN Outcome(db, "basket_create_failed", << >>, NoBasket, NoPayload)
         ELSE CheckoutItemsDone(_create_checkout_intent(db, S, P, active_basket_id,
                                                        active_slug, scope, mark_checked_out),
                                added)
    ELSE IF item_rows[index].handle = ""
    THEN [Outcome(db, "invalid_items", << >>, active_basket_id, NoPayload)
            EXCEPT !.line_index = index]
    ELSE CheckoutItemAdded(db, S, P, item_rows, index, active_slug, active_basket_id,
                           added, scope, mark_checked_out,
                           _add_to_basket(db, S, P, item_rows[index].handle,
                                          item_rows[index].quantity, item_rows[index].options,
                                          item_rows[index].variant_id, active_basket_id,
                                          active_slug, scope))

_checkout_items(db, S, P, item_rows, slug, basket_id, scope, mark_checked_out) ==
    IF item_rows = << >> THEN Outcome(db, "invalid_items", << >>, NoBasket, NoPayload)
    ELSE CheckoutItemsFrom(db, S, P, item_rows, 1,
                           IF Strip(slug) = << >> THEN NoneText ELSE Strip(slug),
                           basket_id, 0, scope, mark_checked_out)

----------------------------------------------------------------------------
(* Tool calls on the basket tables.  last is the record of the latest call *)
(* and of what it returned.                                                *)

(* (slug argument, request-scoped slug) of a call *)
SlugScopes == { << NoneText, NoneText >>, << << " ", "a" >>, B >>, << NoneText, B >> }
(* basket_id arguments: NoBasket, the baskets there may be, an unknown one *)
BasketArgs == 0..(MaxBaskets + 1)
KnownOrNot == 1..(MaxBaskets + 1)
LineArgs == { NoneText, V1.id, V3.id }
UpdateRequests == { << NoneText, 1 >>, << V1.id, 0 >>, << V1.id, 60 >>, << V1.id, 100 >>,
                    << V3.id, 100 >> }

Item(handle, quantity, variant_id, options) ==
    [handle |-> handle, quantity |-> quantity, variant_id |-> variant_id, options |-> options]

AddRequests == { Item("", 1, NoneText, NoOptions),
                 Item("tee", 0, NoneText, NoOptions),
                 Item("zzz", 1, NoneText, NoOptions),
                 Item("tee", 60, V1.id, NoOptions),
                 Item("tee", 100, NoneText, NoOptions),
                 Item("tee", 1, NoneText, << << "SIZE", "M" >> >>),
                 Item("tee", 1, << "v9" >>, NoOptions),
                 Item("cap", 60, NoneText, NoOptions),
                 Item("mug", 1, NoneText, NoOptions) }

ItemLists == { << >>,
               << Item("tee", 60, V1.id, NoOptions) >>,
               << Item("cap", 100, NoneText, NoOptions),
                  Item("tee", 1, V2.id, NoOptions),
                  Item("cap", 1, NoneText, NoOptions) >>,
               << Item("tee", 100, NoneText, NoOptions),
                  Item("", 1, NoneText, NoOptions) >> }

DB == [baskets |-> baskets, items |-> items]

(* the arguments of the latest call: the item given (handle, quantity, *)
(* variant_id, options) and, for checkout_items, the items list        *)
Args(item, item_rows) == [item |-> item, item_rows |-> item_rows]

NoItem == Item("", 0, NoneText, NoOptions)

NoArgs == Args(NoItem, << >>)

Call(op, basket_id, mark, o) ==
    [op |-> op, basket_id |-> basket_id, mark |-> mark, code |-> o.code,
     store_slug |-> o.store_slug, result_basket_id |-> o.basket_id,
     payload |-> o.payload, checkout_url |-> o.checkout_url,
     line_index |-> o.line_index, added_count |-> o.added_count,
     product_urls |-> o.product_urls]

(* the bounds of the model: number of baskets, stored quantity, calls made *)
WithinBounds(db) ==
    /\ Len(db.baskets) <= MaxBaskets
    /\ \A b \in 1..Len(db.items) : \A i \in 1..Len(db.items[b]) :
          db.items[b][i].quantity <= MaxStoredQty

Commit(op, basket_id, mark, o) ==
    /\ WithinBounds(o.db)
    /\ calls' = calls + 1
    /\ baskets' = o.db.baskets
    /\ items' = o.db.items
    /\ last' = Call(op, basket_id, mark, o)
    /\ UNCHANGED << catalog, cacheVars, resolveVars, dispatchVars, fuseVars, variantVars, rankVars, endpointVars, applyVars, taskVars, embedVars, searchVars >>

AddToBasket ==
    /\ calls < MaxCalls
    /\ \E req \in AddRequests, basket_id \in BasketArgs, ss \in SlugScopes :
          \E o \in {
                 _add_to_basket(DB, Stores(catalog), Products(catalog), req.handle, req.quantity,
                 req.options, req.variant_id, basket_id, ss[1], ss[2]) } :
             /\ Commit("add_to_basket", basket_id, FALSE, o)
             /\ largs' = Args(req, << >>)

GetBasket ==
    /\ calls < MaxCalls
    /\ \E basket_id \in BasketArgs, ss \in SlugScopes :
          \E o \in {
                 _get_basket(DB, Stores(catalog), Products(catalog), basket_id, ss[1], ss[2]) } :
             /\ Commit("get_basket", basket_id, FALSE, o)
             /\ largs' = Args(NoItem, << >>)

UpdateBasketItem ==
    /\ calls < MaxCalls
    /\ \E basket_id \in KnownOrNot, req \in UpdateRequests, ss \in SlugScopes :
          \E o \in {
                 _update_basket_item(DB, Stores(catalog), Products(catalog), basket_id, req[1],
                 req[2], ss[1], ss[2]) } :
             /\ Commit("update_basket_item", basket_id, FALSE, o)
             /\ largs' = Args(Item("", req[2], req[1], NoOptions), << >>)

RemoveFromBasket ==
    /\ calls < MaxCalls
    /\ \E basket_id \in KnownOrNot, variant_id \in LineArgs, ss \in SlugScopes :
          \E o \in {
                 _remove_from_basket(DB, Stores(catalog), Products(catalog), basket_id, variant_id,
                 ss[1], ss[2]) } :
             /\ Commit("remove_from_basket", basket_id, FALSE, o)
             /\ largs' = Args(Item("", 0, variant_id, NoOptions), << >>)

ClearBasket ==
    /\ calls < MaxCalls
    /\ \E basket_id \in KnownOrNot, ss \in SlugScopes :
          \E o \in {
                 _clear_basket(DB, Stores(catalog), Products(catalog), basket_id, ss[1], ss[2]) } :
             /\ Commit("clear_basket", basket_id, FALSE, o)
             /\ largs' = Args(NoItem, << >>)

CreateCheckoutIntent ==
    /\ calls < MaxCalls
    /\ \E basket_id \in KnownOrNot, ss \in SlugScopes, mark_checked_out \in BOOLEAN :
          \E o \in {
                 _create_checkout_intent(DB, Stores(catalog), Products(catalog), basket_id, ss[1],
                 ss[2], mark_checked_out) } :
             /\ Commit("create_checkout_intent", basket_id, mark_checked_out, o)
             /\ largs' = Args(NoItem, << >>)

GetCheckoutLink ==
    /\ calls < MaxCalls
    /\ \E basket_id \in KnownOrNot, ss \in SlugScopes :
          \E o \in {
                 _get_checkout_link(DB, Stores(catalog), Products(catalog), basket_id, ss[1], ss[2]) } :
             /\ Commit("get_checkout_link", basket_id, FALSE, o)
             /\ largs' = Args(NoItem, << >>)

CheckoutItems ==
    /\ calls < MaxCalls
    /\ \E item_rows \in ItemLists, basket_id \in {NoBasket, 1}, ss \in SlugScopes,
          mark_checked_out \in BOOLEAN :
          \E o \in {
                 _checkout_items(DB, Stores(catalog), Products(catalog), item_rows, ss[1],
                 basket_id, ss[2], mark_checked_out) } :
             /\ Commit("checkout_items", basket_id, mark_checked_out, o)
             /\ largs' = Args(NoItem, item_rows)

CacheIdle ==
    /\ cmax = [arg |-> 1, size |-> 1] /\ cttl = [arg |-> 1, seconds |-> 1]
    /\ cstore = << >> /\ cnow = 0 /\ ctick = 0
    /\ cused = [k \in {} |-> 0] /\ cset = [k \in {} |-> 0]
    /\ clast = [op |-> "init", key |-> None, result |-> None]

ResolveIdle == rlast = [slug |-> NoneText, scope |-> NoneText, hint |-> None, fail |-> {},
                        result |-> Resolved("init", << >>)]

DispatchIdle ==
    /\ dprior = << >> /\ dctx = << >> /\ dtoken = << >>
    /\ dpc = << >> /\ dslug = << >> /\ dexit = << >>

(* the response for a blank query *)
NoQueryPayload ==
    [envelope |-> "no_query", store_slug |-> << >>, query |-> << >>,
     summary |-> [count |-> 0, query |-> << >>], results |-> << >>,
     truncated |-> FALSE, cache_hit |-> FALSE]

FuseIdle == flast = [rankings |-> << << >>, << >> >>, limit |-> 0, fused |-> << >>]

VariantIdle ==
    vlast = [applied |-> FALSE, product |-> [variants |-> << >>], variant_id |-> NoneText,
             options |-> NoOptions, variant |-> NoVariant, reason |-> None]

RankIdle ==
    klast = [tool |-> "none", limit |-> 0, enabled |-> FALSE, embed |-> "none", vector_query |-> "rows",
             vector_rows |-> << >>, fts_ranked |-> << >>, raised |-> FALSE, fused |-> << >>]

EndpointIdle ==
    elast = [done |-> FALSE]

ApplyIdle == alast = [op |-> "none"]

TaskIdle == tasks = << >>

(* the embedder and _EMBED_CACHE before the first search: the cache, the  *)
(* clock, how often embed_query was called and the cache read and        *)
(* written, what each key was last stored with, and the last call        *)
EmbedStart(enabled) ==
    [enabled |-> enabled, store |-> << >>, now |-> 0, calls |-> 0, reads |-> 0, writes |-> 0,
     searches |-> 0, stored |-> [k \in {} |-> 0],
     last |-> [op |-> "none", query_text |-> << >>, key |-> << >>, result |-> None,
               called |-> FALSE, fresh |-> FALSE, vector |-> None]]

EmbedIdle == embeds = EmbedStart(FALSE)

SearchIdle ==
    /\ heap = << >> /\ scache = << >> /\ snow = 0 /\ sheld = {}
    /\ sstored = [k \in {} |-> 0]
    /\ slast = [op |-> "init", slug |-> << >>, query |-> << >>, limit |-> 0, cache_key |-> << >>, ref |-> None,
                response |-> NoQueryPayload, uncapped |-> NoQueryPayload,
                capped |-> NoQueryPayload]

BasketIdle ==
    /\ catalog = "full"
    /\ baskets = << >> /\ items = << >> /\ calls = 0 /\ largs = NoArgs
    /\ last = [op |-> "init", basket_id |-> NoBasket, mark |-> FALSE, code |-> "ok",
               store_slug |-> << >>, result_basket_id |-> NoBasket, payload |-> NoPayload,
               checkout_url |-> EmptyUrl, line_index |-> 0, added_count |-> 0,
               product_urls |-> << >>]

NoTables == [baskets |-> << >>, items |-> << >>]

(* the tables after add_to_basket(handle "tee") and clear_basket were *)
(* called for the store slug: one more active basket without lines    *)
Emptied(db, slug) ==
    _clear_basket(_add_to_basket(db, Stores("full"), Products("full"), "tee", 1, NoOptions,
                                 NoneText, NoBasket, slug, NoneText).db,
                  Stores("full"), Products("full"), Len(db.baskets) + 1, slug, NoneText).db

StartTables == { NoTables, Emptied(Emptied(NoTables, A), B) }

BasketStart ==
    /\ catalog = "full"
    /\ \E t \in StartTables : baskets = t.baskets /\ items = t.items
    /\ calls = 0 /\ largs = NoArgs
    /\ last = [op |-> "init", basket_id |-> NoBasket, mark |-> FALSE, code |-> "ok",
               store_slug |-> << >>, result_basket_id |-> NoBasket, payload |-> NoPayload,
               checkout_url |-> EmptyUrl, line_index |-> 0, added_count |-> 0,
               product_urls |-> << >>]

Init == BasketStart /\ CacheIdle /\ ResolveIdle /\ DispatchIdle /\ FuseIdle /\ VariantIdle /\ RankIdle /\ EndpointIdle /\ ApplyIdle /\ TaskIdle /\ EmbedIdle /\ SearchIdle

Next ==
    \/ AddToBasket
    \/ GetBasket
    \/ UpdateBasketItem
    \/ RemoveFromBasket
    \/ ClearBasket
    \/ CreateCheckoutIntent
    \/ GetCheckoutLink
    \/ CheckoutItems

Spec == Init /\ [][Next]_vars

----------------------------------------------------------------------------
(* _TTLCache.  cstore is the OrderedDict as the sequence of its entries,   *)
(* oldest first; cnow is time.time().  History: cused[k] is the tick of    *)
(* the latest set or get hit of k; cset[k] records the latest set of k and *)
(* whether that entry was evicted since.                                    *)

(* constructor arguments: below the floor of one, the floor, above it *)
CacheSizes == { 0, 1, 2 }
CacheTtls == { 0, 1, 2 }

CacheKeys == { "k1", "k2", "k3" }
CacheValues == { "x", "y" }

KeysOf(store) == { store[i].key : i \in 1..Len(store) }

KeyIndex(store, key) ==
    LET hits == { i \in 1..Len(store) : store[i].key = key }
    IN  IF hits = {} THEN 0 ELSE CHOOSE i \in hits : TRUE

(* OrderedDict.move_to_end(key) *)
move_to_end(store, key) ==
    LET i == KeyIndex(store, key)
    IN  IF i = 0 THEN store ELSE Append(DeleteAt(store, i), store[i])

(* store[key] = item: in place for a key there is, at the end for a new one *)
SetItem(store, item) ==
    LET i == KeyIndex(store, item.key)
    IN  IF i = 0 THEN Append(store, item) ELSE [store EXCEPT ![i] = item]

(* while len(store) > max_size: store.popitem(last=False) *)
RECURSIVE PopOldest(_, _)
PopOldest(store, max_size) ==
    IF Len(store) > max_size THEN PopOldest(Tail(store), max_size) ELSE store

TTLCache_init(max_size, ttl_seconds) ==
    [max |-> [arg |-> max_size, size |-> Max(1, max_size)],
     ttl |-> [arg |-> ttl_seconds, seconds |-> Max(1, ttl_seconds)]]

(* get that does not promote the key it hits *)
TTLCache_get_no_promote(store, now, key) ==
    LET i == KeyIndex(store, key)
    IN  IF i = 0 THEN [store |-> store, value |-> None]
        ELSE IF store[i].expires_at <= now
        THEN [store |-> DeleteAt(store, i), value |-> None]
        ELSE [store |-> store, value |-> store[i].value]

(* get that still serves an entry at the instant it expires *)
TTLCache_get_inclusive(store, now, key) ==
    LET i == KeyIndex(store, key)
    IN  IF i = 0 THEN [store |-> store, value |-> None]
        ELSE IF store[i].expires_at < now
        THEN [store |-> DeleteAt(store, i), value |-> None]
        ELSE [store |-> move_to_end(store, key), value |-> store[i].value]

(* the store after get(key) and the value returned, None for absent *)
TTLCache_get(store, now, key) ==
    LET i == KeyIndex(store, key)
    IN  IF i = 0 THEN [store |-> store, value |-> None]
        ELSE IF store[i].expires_at <= now
        THEN [store |-> DeleteAt(store, i), value |-> None]
        ELSE [store |-> move_to_end(store, key), value |-> store[i].value]

TTLCache_set(store, now, max_size, ttl_seconds, key, value) ==
    LET expires_at == now + ttl_seconds
        assigned == SetItem(store, [key |-> key, expires_at |-> expires_at, value |-> value])
    IN  PopOldest(move_to_end(assigned, key), max_size)

Put(f, k, v) == [x \in (DOMAIN f) \cup {k} |-> IF x = k THEN v ELSE f[x]]

CacheGet ==
    \E key \in CacheKeys :
        LET r == TTLCache_get(cstore, cnow, key)
        IN  /\ ctick < MaxCacheOps
            /\ ctick' = ctick + 1
            /\ cstore' = r.store
            /\ cused' = IF r.value # None THEN Put(cused, key, ctick + 1) ELSE cused
            /\ clast' = [op |-> "get", key |-> key, result |-> r.value]
            /\ UNCHANGED << cmax, cttl, cnow, cset, basketVars, resolveVars, dispatchVars, fuseVars, variantVars, rankVars, endpointVars, applyVars, taskVars, embedVars, searchVars >>

CacheSet ==
    \E key \in CacheKeys, value \in CacheValues :
        LET after == TTLCache_set(cstore, cnow, cmax.size, cttl.seconds, key, value)
            evicted == (KeysOf(cstore) \cup {key}) \ KeysOf(after)
            marked == [k \in DOMAIN cset |->
                         IF k \in evicted THEN [cset[k] EXCEPT !.evicted = TRUE] ELSE cset[k]]
        IN  /\ ctick < MaxCacheOps
            /\ ctick' = ctick + 1
            /\ cstore' = after
            /\ cused' = Put(cused, key, ctick + 1)
            /\ cset' = Put(marked, key, [at |-> cnow, value |-> value,
                                         evicted |-> key \in evicted])
            /\ clast' = [op |-> "set", key |-> key, result |-> None]
            /\ UNCHANGED << cmax, cttl, cnow, basketVars, resolveVars, dispatchVars, fuseVars, variantVars, rankVars, endpointVars, applyVars, taskVars, embedVars, searchVars >>

(* time passes *)
CacheTick ==
    /\ cnow < MaxTime
    /\ cnow' = cnow + 1
    /\ UNCHANGED << cmax, cttl, cstore, cused, ctick, cset, clast,
                    basketVars, resolveVars, dispatchVars, fuseVars, variantVars, rankVars, endpointVars, applyVars, taskVars, embedVars, searchVars >>

InitCache ==
    /\ BasketIdle /\ ResolveIdle /\ DispatchIdle /\ FuseIdle /\ VariantIdle /\ RankIdle /\ EndpointIdle /\ ApplyIdle /\ TaskIdle /\ EmbedIdle /\ SearchIdle
    /\ \E max_size \in CacheSizes, ttl_seconds \in CacheTtls :
          /\ cmax = TTLCache_init(max_size, ttl_seconds).max
          /\ cttl = TTLCache_init(max_size, ttl_seconds).ttl
    /\ cstore = << >> /\ cnow = 0 /\ ctick = 0
    /\ cused = [k \in {} |-> 0] /\ cset = [k \in {} |-> 0]
    /\ clast = [op |-> "init", key |-> None, result |-> None]

NextCache ==
    \/ CacheGet
    \/ CacheSet
    \/ CacheTick

SpecCache == InitCache /\ [][NextCache]_vars

----------------------------------------------------------------------------
(* _resolve_store_slug on its own, over the catalogs and with failing      *)
(* database probes                                                         *)

RawSlugs == { NoneText, << " " >>, A, << " ", "b", " " >> }
RawScopes == { NoneText, << >>, << "b", " " >> }
Hints == { None, " ", "tee", "cap", "zzz" }
Probes == { "fts", "fuzzy", "preferred", "fallback" }
FailSets == { {}, {"fts"}, {"fuzzy"}, {"fts", "fuzzy"}, {"preferred"}, {"fallback"}, Probes }

ResolveStoreSlug ==
    \E slug \in RawSlugs, scope \in RawScopes, hint \in Hints, fail \in FailSets :
        /\ rlast' = [slug |-> slug, scope |-> scope, hint |-> hint, fail |-> fail,
                     result |-> _resolve_store_slug(Stores(catalog), Products(catalog),
                                                    slug, scope, hint, fail)]
        /\ UNCHANGED << basketVars, cacheVars, dispatchVars, fuseVars, variantVars, rankVars, endpointVars, applyVars, taskVars, embedVars, searchVars >>

InitResolve ==
    /\ catalog \in Catalogs
    /\ baskets = << >> /\ items = << >> /\ calls = 0 /\ largs = NoArgs
    /\ last = [op |-> "init", basket_id |-> NoBasket, mark |-> FALSE, code |-> "ok",
               store_slug |-> << >>, result_basket_id |-> NoBasket, payload |-> NoPayload,
               checkout_url |-> EmptyUrl, line_index |-> 0, added_count |-> 0,
               product_urls |-> << >>]
    /\ CacheIdle /\ ResolveIdle /\ DispatchIdle /\ FuseIdle /\ VariantIdle /\ RankIdle /\ EndpointIdle /\ ApplyIdle /\ TaskIdle /\ EmbedIdle /\ SearchIdle

NextResolve == ResolveStoreSlug

SpecResolve == InitResolve /\ [][NextResolve]_vars

----------------------------------------------------------------------------
(* The dispatcher's request scope: POST /mcp/{slug}/tool/{tool}.  Each     *)
(* request runs in its own context; dctx[r] is the value of                *)
(* _store_slug_var there, dprior[r] the value the request started with.    *)

Requests == 1..MaxRequests
PathSlugs == { A, B }
PriorSlugs == { NoneText, << "p" >> }

(* ContextVar.set: the new value and the token holding the old one *)
set_store_slug(ctx, slug) == [ctx |-> slug, token |-> ctx]

(* reset_store_slug leaving the variable as it is *)
reset_store_slug_skipped(ctx, token) == ctx

(* ContextVar.reset(token) *)
reset_store_slug(ctx, token) == token

get_store_slug(ctx) == ctx

(* one context for all requests *)
ContextOf_shared(r) == 1

(* the context a request's handler runs in: the task of each request has *)
(* its own copy of the context, and _store_slug_var lives in it          *)
ContextOf(r) == r

(* lines 155-169: lookup of the tool, shape of the arguments, set_store_slug *)
InvokeTool(r) ==
    /\ dpc[r] = "new"
    /\ \E slug \in PathSlugs, known \in BOOLEAN, object \in BOOLEAN :
          /\ dslug' = [dslug EXCEPT ![r] = slug]
          /\ IF ~known
             THEN /\ dpc' = [dpc EXCEPT ![r] = "done"]
                  /\ dexit' = [dexit EXCEPT ![r] = "404"]
                  /\ UNCHANGED << dctx, dtoken >>
             ELSE IF ~object
             THEN /\ dpc' = [dpc EXCEPT ![r] = "done"]
                  /\ dexit' = [dexit EXCEPT ![r] = "400"]
                  /\ UNCHANGED << dctx, dtoken >>
             ELSE /\ dpc' = [dpc EXCEPT ![r] = "running"]
                  /\ dctx' = [dctx EXCEPT ![ContextOf(r)] =
                                         set_store_slug(dctx[ContextOf(r)], slug).ctx]
                  /\ dtoken' = [dtoken EXCEPT ![r] =
                                           set_store_slug(dctx[ContextOf(r)], slug).token]
                  /\ UNCHANGED dexit
    /\ UNCHANGED << dprior, basketVars, cacheVars, resolveVars, fuseVars, variantVars, rankVars, endpointVars, applyVars, taskVars, embedVars, searchVars >>

(* the finally clause, whatever way the try block is left *)
Leave(r, how) ==
    /\ dpc[r] = "running"
    /\ dpc' = [dpc EXCEPT ![r] = "done"]
    /\ dexit' = [dexit EXCEPT ![r] = how]
    /\ dctx' = [dctx EXCEPT ![ContextOf(r)] = reset_store_slug(dctx[ContextOf(r)], dtoken[r])]
    /\ UNCHANGED << dprior, dtoken, dslug, basketVars, cacheVars, resolveVars, fuseVars, variantVars, rankVars, endpointVars, applyVars, taskVars, embedVars, searchVars >>

ToolReturns(r) == Leave(r, "200")

ToolRaisesTypeError(r) == Leave(r, "400_type_error")

ToolRaises(r) == Leave(r, "error")

InitDispatch ==
    /\ BasketIdle /\ CacheIdle /\ ResolveIdle /\ FuseIdle /\ VariantIdle /\ RankIdle /\ EndpointIdle /\ ApplyIdle /\ TaskIdle /\ EmbedIdle /\ SearchIdle
    /\ dprior \in [Requests -> PriorSlugs]
    /\ dctx = dprior
    /\ dtoken = [r \in Requests |-> NoneText]
    /\ dpc = [r \in Requests |-> "new"]
    /\ dslug = [r \in Requests |-> NoneText]
    /\ dexit = [r \in Requests |-> "none"]

NextDispatch ==
    \E r \in Requests :
        \/ InvokeTool(r)
        \/ ToolReturns(r)
        \/ ToolRaisesTypeError(r)
        \/ ToolRaises(r)

SpecDispatch == InitDispatch /\ [][NextDispatch]_vars

----------------------------------------------------------------------------
(* Reciprocal rank fusion.  A ranking is a sequence of (product_id, rank) *)
(* rows as the two candidate queries return them: each product once, the  *)
(* ranks those of row_number(), in rising order.  A score is held as a    *)
(* whole number of units of 1 / ScoreScale, ScoreScale being a common     *)
(* multiple of the denominators 60 + rank.                                *)

ProductIds == { << "a" >>, << "a", "b" >>, << "b" >> }

RankedRows == [product_id : ProductIds, rank : 1..MaxRank]

Rankings ==
    { r \in UNION { [1..n -> RankedRows] : n \in 0..MaxRank } :
         \A i \in 1..Len(r) : \A j \in 1..Len(r) :
            i < j => r[i].product_id # r[j].product_id /\ r[i].rank < r[j].rank }

FuseLimits == 1..(MaxRank + 2)

RECURSIVE ScaleUpTo(_)
ScaleUpTo(rank) == IF rank = 0 THEN 1 ELSE (_RRF_K + rank) * ScaleUpTo(rank - 1)

ScoreScale == ScaleUpTo(MaxRank)

(* 1.0 / (_RRF_K + rank) *)
Reciprocal(rank) == ScoreScale \div (_RRF_K + rank)

(* what the rows of one ranking add to scores[product_id] *)
RECURSIVE RankingScore(_, _)
RankingScore(ranking, product_id) ==
    IF ranking = << >> THEN 0
    ELSE (IF Head(ranking).product_id = product_id THEN Reciprocal(Head(ranking).rank) ELSE 0)
         + RankingScore(Tail(ranking), product_id)

(* scores[product_id] after the loop over the rankings *)
RECURSIVE FusedScore(_, _)
FusedScore(rankings, product_id) ==
    IF rankings = << >> THEN 0
    ELSE RankingScore(Head(rankings), product_id) + FusedScore(Tail(rankings), product_id)

(* scores.items() *)
ScoreItems(rankings) ==
    UNION { { [product_id |-> rankings[i][j].product_id,
               score |-> FusedScore(rankings, rankings[i][j].product_id)] :
                 j \in 1..Len(rankings[i]) } : i \in 1..Len(rankings) }

(* the sort key (-score, product_id) with the id compared the other way *)
SortsBefore_id_descending(x, y) ==
    \/ x.score > y.score
    \/ x.score = y.score /\ TextLess(y.product_id, x.product_id)

(* x sorts before y under key = (-score, product_id) *)
SortsBefore(x, y) ==
    \/ x.score > y.score
    \/ x.score = y.score /\ TextLess(x.product_id, y.product_id)

(* sorted(entries, key = ...) *)
SortedItems(entries) ==
    [k \in 1..Cardinality(entries) |->
        CHOOSE e \in entries : Cardinality({ d \in entries : SortsBefore(d, e) }) = k - 1]

(* ordered[:limit] *)
SliceTo(ordered, limit) ==
    SubSeq(ordered, 1, IF limit >= 0 THEN Min(limit, Len(ordered))
                       ELSE Max(0, Len(ordered) + limit))

_rrf_fuse(rankings, limit) == SliceTo(SortedItems(ScoreItems(rankings)), limit)

(* one application of _rrf_fuse to the rankings of a search *)
Fuse ==
    \E vector_ranked \in Rankings, fts_ranked \in Rankings, limit \in FuseLimits :
        /\ flast.limit = 0
        /\ flast' = [rankings |-> << vector_ranked, fts_ranked >>, limit |-> limit,
                     fused |-> _rrf_fuse(<< vector_ranked, fts_ranked >>, limit)]
        /\ UNCHANGED << basketVars, cacheVars, resolveVars, dispatchVars, variantVars, rankVars, endpointVars, applyVars, taskVars, embedVars, searchVars >>

InitFuse ==
    BasketIdle /\ CacheIdle /\ ResolveIdle /\ DispatchIdle /\ FuseIdle /\ VariantIdle /\ RankIdle /\ EndpointIdle /\ ApplyIdle /\ TaskIdle /\ EmbedIdle /\ SearchIdle

NextFuse == Fuse

SpecFuse == InitFuse /\ [][NextFuse]_vars

----------------------------------------------------------------------------
(* search_products_v2.  A response is an object of the heap, named by its  *)
(* reference; the search cache holds references, and so do the callers a   *)
(* response was returned to.  A query is a sequence of tokens, LongWord    *)
(* standing for a word of MaxQueryBytes letters; a scored row carries the  *)
(* size in bytes of its JSON text.                                         *)

LongWord == "long"

Queries == { << " " >>, << "tee" >>, << " ", "Tee", " " >>, << "cap" >>, << LongWord >> }

(* the slug and query of a call: store a with each query, and two calls     *)
(* whose slug and query have a "|" at different places                     *)
SearchCalls ==
    { [slug |-> A, query |-> q] : q \in Queries }
    \cup { [slug |-> A, query |-> << "b", "|", "tee" >>],
           [slug |-> << "a", "|", "b" >>, query |-> << "tee" >>] }

Limits == { -1, 0, 1, _MAX_V2_RESULTS + 1 }

Row(handle, bytes) == [handle |-> handle, bytes |-> bytes]

(* the candidates that pass the filters, as sorted by the ranking *)
ScoredLists ==
    { << >>,
      << Row("tee", MinRowBytes) >>,
      [i \in 1..(_MAX_V2_RESULTS + 1) |-> Row("tee", MinRowBytes)],
      << Row("cap", MaxRowBytes), Row("tee", MaxRowBytes), Row("mug", MaxRowBytes) >> }

(* bytes of the UTF-8 text of a token, of a text *)
TokenBytes(t) == IF t = LongWord THEN MaxQueryBytes ELSE IF t \in { " ", "|" } THEN 1 ELSE 3

TextBytes(text) == SumSeq([i \in 1..Len(text) |-> TokenBytes(text[i])])

(* query_text.lower() *)
LowerText(text) == [i \in 1..Len(text) |-> IF text[i] = "Tee" THEN "tee" ELSE Lower(text[i])]

(* "|".join(str(part) for part in parts) *)
RECURSIVE _cache_key(_)
_cache_key(parts) ==
    IF parts = << >> THEN << >>
    ELSE IF Len(parts) = 1 THEN Head(parts)
    ELSE Head(parts) \o << "|" >> \o _cache_key(Tail(parts))

(* rows of the response: rank is the 1-based place in top *)
ResultRows(top) ==
    [index \in 1..Len(top) |->
        [rank |-> index, handle |-> top[index].handle, bytes |-> top[index].bytes]]

(* response_payload; summary is f"Top {len(results)} results for '{query_text}'." *)
ResponsePayload(store_slug, query_text, results) ==
    [envelope |-> "raw", store_slug |-> store_slug, query |-> query_text,
     summary |-> [count |-> Len(results), query |-> query_text], results |-> results,
     truncated |-> FALSE, cache_hit |-> FALSE]

(* bytes of the JSON text apart from store_slug, the query text in query and *)
(* in summary, the rows of results and the literals of truncated and         *)
(* cache_hit: with the three null filters, and without them                  *)
RawEnvelopeBytes == 278
NormalizedEnvelopeBytes == 213
(* bytes of the JSON text of the response for a blank query *)
NoQueryBytes == 267

(* bytes of the literals true and false *)
BoolBytes(flag) == IF flag THEN 4 ELSE 5

(* the rows and the commas between them *)
RowsBytes(results) ==
    SumSeq([i \in 1..Len(results) |-> results[i].bytes]) + Max(0, Len(results) - 1)

(* len(json.dumps(payload, ensure_ascii=False, separators=(",", ":")).encode("utf-8")) *)
_serialize_bytes(payload) ==
    IF payload.envelope = "no_query" THEN NoQueryBytes
    ELSE (IF payload.envelope = "raw" THEN RawEnvelopeBytes ELSE NormalizedEnvelopeBytes)
         + TextBytes(payload.store_slug) + TextBytes(payload.query)
         + TextBytes(payload.summary.query) + RowsBytes(payload.results)
         + BoolBytes(payload.truncated) + BoolBytes(payload.cache_hit)

(* the while loop of _enforce_payload_cap and the return after it *)
RECURSIVE PopUntilFits(_, _, _)
PopUntilFits(payload, results, max_bytes) ==
    IF results = << >> THEN [payload EXCEPT !.results = << >>, !.truncated = TRUE]
    ELSE IF _serialize_bytes([payload EXCEPT !.results = SubSeq(results, 1, Len(results) - 1),
                                             !.truncated = TRUE]) <= max_bytes
    THEN [payload EXCEPT !.results = SubSeq(results, 1, Len(results) - 1), !.truncated = TRUE]
    ELSE PopUntilFits(payload, SubSeq(results, 1, Len(results) - 1), max_bytes)

_enforce_payload_cap(payload, max_bytes) ==
    IF _serialize_bytes(payload) <= max_bytes THEN payload
    ELSE PopUntilFits(payload, payload.results, max_bytes)

(* format_payload of a response: a new object without the null filters *)
format_payload(payload) ==
    IF payload.envelope = "raw" THEN [payload EXCEPT !.envelope = "normalized"] ELSE payload

(* json.loads(json.dumps(value)) of a response: an equal value, a new object *)
_safe_copy(value) == value

(* references are held as text, None being no reference *)
Ref(index) == ToString(index)

Deref(h, ref) == h[CHOOSE i \in 1..Len(h) : Ref(i) = ref]

(* what a call leaves: the heap, the cache, the reference returned, the key *)
(* the response was stored under (if it was), and the payload before and    *)
(* after _enforce_payload_cap                                               *)
SearchOutcome(op, h, cache, cache_key, uncapped, capped) ==
    [op |-> op, heap |-> h, cache |-> cache, cache_key |-> cache_key, ref |-> Ref(Len(h)),
     uncapped |-> uncapped, capped |-> capped]

(* the cache miss from _enforce_payload_cap on: the same object is stored *)
(* and returned                                                           *)
SearchCapped(h, cache, now, cache_key, response_payload, capped_payload) ==
    SearchOutcome("miss", Append(h, format_payload(capped_payload)),
                  TTLCache_set(cache, now, SearchCacheSize, SearchCacheTtl, cache_key,
                               Ref(Len(h) + 1)),
                  cache_key, response_payload, capped_payload)

SearchMiss(h, cache, now, cache_key, response_payload) ==
    SearchCapped(h, cache, now, cache_key, response_payload,
                 _enforce_payload_cap(response_payload, _V2_PAYLOAD_LIMIT_BYTES))

(* _search_products_v2 from _SEARCH_CACHE.get on *)
SearchKeyed(h, now, store_slug, query_text, bounded_limit, scored, cache_key, cached) ==
    IF cached.value # None
    THEN SearchOutcome("hit",
                       Append(h, [_safe_copy(Deref(h, cached.value)) EXCEPT !.cache_hit = TRUE]),
                       cached.store, cache_key, NoQueryPayload, NoQueryPayload)
    ELSE SearchMiss(h, cached.store, now, cache_key,
                    ResponsePayload(store_slug, query_text,
                                    ResultRows(SubSeq(scored, 1,
                                                      Min(bounded_limit, Len(scored))))))

(* _search_products_v2 from the resolved store and the bounded limit on *)
SearchInStore(h, cache, now, store_slug, query_text, bounded_limit, scored, cache_key) ==
    SearchKeyed(h, now, store_slug, query_text, bounded_limit, scored, cache_key,
                TTLCache_get(cache, now, cache_key))

SearchBounded(h, cache, now, store_slug, query_text, bounded_limit, scored) ==
    SearchInStore(h, cache, now, store_slug, query_text, bounded_limit, scored,
                  _cache_key(<< << "v2" >>, store_slug, LowerText(query_text),
                                << ToString(bounded_limit) >>, << "True" >>, << "None" >>,
                                << "None" >>, << >>, << "best_match" >> >>))

_search_products_v2(h, cache, now, S, P, query, slug, limit, scored) ==
    IF Strip(query) = << >>
    THEN SearchOutcome("no_query", Append(h, NoQueryPayload), cache, << >>,
                       NoQueryPayload, NoQueryPayload)
    ELSE SearchBounded(h, cache, now, _resolve_store_slug(S, P, slug, NoneText, None, {}).slug,
                       Strip(query), Max(1, Min(limit, _MAX_V2_RESULTS)), scored)

SearchV2 ==
    /\ Len(heap) < MaxSearches
    /\ \E call \in SearchCalls, limit \in Limits, scored \in ScoredLists :
          \E o \in { _search_products_v2(heap, scache, snow, Stores(catalog), Products(catalog),
                                         call.query, call.slug, limit, scored) } :
             /\ heap' = o.heap
             /\ scache' = o.cache
             /\ sheld' = sheld \cup { o.ref }
             /\ sstored' = IF o.op = "miss" THEN Put(sstored, o.cache_key, Deref(o.heap, o.ref))
                           ELSE sstored
             /\ slast' = [op |-> o.op, slug |-> call.slug, query |-> call.query,
                          limit |-> limit, cache_key |-> o.cache_key,
                          ref |-> o.ref, response |-> Deref(o.heap, o.ref),
                          uncapped |-> o.uncapped, capped |-> o.capped]
             /\ UNCHANGED << snow, basketVars, cacheVars, resolveVars, dispatchVars, fuseVars, variantVars, rankVars,
                        endpointVars, applyVars, taskVars, embedVars >>

(* a caller empties the results of a response it was given *)
CallerMutates ==
    \E i \in 1..Len(heap) :
        /\ Ref(i) \in sheld
        /\ heap[i].results # << >>
        /\ heap' = [heap EXCEPT ![i].results = << >>]
        /\ UNCHANGED << scache, snow, sheld, sstored, slast,
                        basketVars, cacheVars, resolveVars, dispatchVars, fuseVars, variantVars, rankVars,
                        endpointVars, applyVars, taskVars, embedVars >>

(* time passes *)
SearchTick ==
    /\ snow < MaxTime
    /\ snow' = snow + 1
    /\ UNCHANGED << heap, scache, sheld, sstored, slast,
                    basketVars, cacheVars, resolveVars, dispatchVars, fuseVars, variantVars, rankVars,
                        endpointVars, applyVars, taskVars, embedVars >>

InitSearch ==
    BasketIdle /\ CacheIdle /\ ResolveIdle /\ DispatchIdle /\ FuseIdle /\ VariantIdle /\ RankIdle /\ EndpointIdle /\ ApplyIdle /\ TaskIdle /\ EmbedIdle /\ SearchIdle

NextSearch ==
    \/ SearchV2
    \/ CallerMutates
    \/ SearchTick

SpecSearch == InitSearch /\ [][NextSearch]_vars

----------------------------------------------------------------------------
(* Properties of the basket manager, checked under Spec *)

Mutations == { "add_to_basket", "update_basket_item", "remove_from_basket", "clear_basket" }
ShapeErrors == { "invalid_handle", "invalid_quantity", "invalid_variant_id" }

(* the step is a tool call aimed at a basket there is *)
CallOn(b) == calls' = calls + 1 /\ last'.basket_id = b /\ b \in 1..Len(baskets)

(* C1: after any sequence of basket calls every stored basket line has    *)
(* 1 <= quantity <= 99, an add onto an existing line storing the          *)
(* accumulated quantity clamped to 99.                                    *)
C1_LineQuantityInRange ==
    \A b \in 1..Len(items) : \A i \in 1..Len(items[b]) :
        /\ 1 <= items[b][i].quantity
        /\ items[b][i].quantity <= _BASKET_MAX_QUANTITY

(* C2: a basket starts active; it becomes checked_out only by a           *)
(* create_checkout_intent or checkout_items call with mark_checked_out    *)
(* that built a checkout URL; a checked_out basket stays checked_out.     *)
MarkedCheckout(b) ==
    /\ last'.op \in {"create_checkout_intent", "checkout_items"}
    /\ last'.mark
    /\ last'.code = "ok"
    /\ last'.checkout_url # EmptyUrl
    /\ last'.result_basket_id = b

C2_StatusTransitions ==
    [][\A b \in 1..Len(baskets') :
          /\ baskets'[b].status \in {"active", "checked_out"}
          /\ b \in 1..Len(baskets) /\ baskets[b].status = "checked_out"
                => baskets'[b].status = "checked_out"
          /\ (b \notin 1..Len(baskets) \/ baskets[b].status = "active")
                /\ baskets'[b].status = "checked_out"
                => MarkedCheckout(b)]_vars

C2_Witness ==
    /\ last.op = "create_checkout_intent" /\ last.mark /\ last.code = "ok"
    /\ baskets[last.result_basket_id].status = "checked_out"

(* C3: on a checked_out basket add_to_basket, update_basket_item,         *)
(* remove_from_basket and clear_basket return basket_scope_error and      *)
(* leave the lines unchanged, while get_basket, create_checkout_intent    *)
(* and get_checkout_link succeed.  Stated for calls made for the basket's *)
(* own store, the error of a malformed argument being let through.        *)
C3_CheckedOutIsReadOnly ==
    [][\A b \in 1..Len(baskets) :
          /\ CallOn(b)
          /\ baskets[b].status = "checked_out"
          /\ last'.store_slug \in {<< >>, baskets[b].store_slug}
          => /\ last'.op \in Mutations
                => /\ last'.code \in {"basket_scope_error"} \cup ShapeErrors
                   /\ items' = items
             /\ last'.op \in {"get_basket", "create_checkout_intent", "get_checkout_link"}
                => last'.code = "ok"]_vars

(* C4: a basket mutation or create_checkout_intent called with an         *)
(* existing basket_id and a resolved store slug other than the basket's   *)
(* store_slug fails with basket_scope_error and changes no basket and no  *)
(* line, whether or not the product exists in that store.                 *)
C4_ScopeMismatchRejected ==
    [][\A b \in 1..Len(baskets) :
          /\ CallOn(b)
          /\ last'.op \in Mutations \cup {"create_checkout_intent"}
          /\ last'.store_slug # << >>
          /\ last'.store_slug # baskets[b].store_slug
          => /\ last'.code = "basket_scope_error"
             /\ baskets' = baskets
             /\ items' = items]_vars

(* C5: the store_slug of a basket never changes, and every line of a      *)
(* basket was written by an add_to_basket whose resolved store slug is    *)
(* the basket's store_slug.                                               *)
C5_StoreBinding ==
    [][/\ \A b \in 1..Len(baskets) :
             /\ b \in 1..Len(baskets')
             /\ baskets'[b].store_slug = baskets[b].store_slug
       /\ \A b \in 1..Len(items') : \A i \in 1..Len(items'[b]) :
             items'[b][i].via = baskets'[b].store_slug]_vars

C5_Witness ==
    /\ last.op = "add_to_basket" /\ last.code = "ok" /\ last.basket_id # NoBasket
    /\ Len(items[last.basket_id]) = 2

----------------------------------------------------------------------------
(* Properties of the slug resolver, checked under SpecResolve *)

ProbeKinds == { "fts", "fuzzy", "preferred", "fallback", "raise_db", "raise_no_stores" }

Trimmed(text) == text # << >> /\ Head(text) # " " /\ text[Len(text)] # " "

(* C7: _resolve_store_slug returns the trimmed explicit slug whenever it  *)
(* is not blank; otherwise the request-scoped slug whenever that is not   *)
(* blank; it consults the database probes only when both are blank, and   *)
(* raises when there is no store row at all.                              *)
C7_ResolverPrecedence ==
    rlast.result.kind # "init"
    => LET explicit == Strip(rlast.slug)
           scoped == Strip(rlast.scope)
           res == rlast.result
       IN  /\ explicit # << >>
              => res.kind = "explicit" /\ res.slug = explicit /\ Trimmed(res.slug)
           /\ explicit = << >> /\ scoped # << >>
              => res.kind = "scoped" /\ res.slug = scoped /\ Trimmed(res.slug)
           /\ res.kind \in ProbeKinds => explicit = << >> /\ scoped = << >>
           /\ explicit = << >> /\ scoped = << >> /\ Stores(catalog) = {}
              => Raised(res) /\ res.slug = << >>

C7_Witness ==
    /\ rlast.slug = << " ", "b", " " >> /\ rlast.scope = << "b", " " >>
    /\ rlast.result.slug = B /\ rlast.result.kind = "explicit"
    /\ catalog = "empty"

----------------------------------------------------------------------------
(* Properties of the request scope, checked under SpecDispatch *)

(* C8: for a request that reaches the tool, the request-scoped slug is    *)
(* the path slug while the tool runs and is back to its prior value,      *)
(* absent included, once the handler has exited by return, by TypeError   *)
(* or by any other exception.                                             *)
C8_ScopeSetAndRestored ==
    \A r \in DOMAIN dpc :
        /\ dpc[r] = "running" => get_store_slug(dctx[r]) = dslug[r]
        /\ dpc[r] = "done" /\ dexit[r] \in {"200", "400_type_error", "error"}
              => get_store_slug(dctx[r]) = dprior[r]

C8_Witness ==
    \E r \in DOMAIN dpc :
        /\ dpc[r] = "done" /\ dexit[r] = "error"
        /\ dprior[r] = NoneText /\ dctx[r] = NoneText
        /\ \E q \in DOMAIN dpc : dpc[q] = "running" /\ dctx[q] = dslug[q]

(* C38: with several requests in flight for different path slugs, a tool  *)
(* that resolves its store from the request scope obtains the slug of its *)
(* own request, whatever the interleaving and the order of finishing      *)
C38_OwnRequestSlug ==
    \A r \in DOMAIN dpc : \A q \in DOMAIN dpc :
        (r # q /\ dpc[r] = "running" /\ dpc[q] # "new")
           => get_store_slug(dctx[ContextOf(r)]) = dslug[r]

C38_Witness ==
    \E r \in DOMAIN dpc : \E q \in DOMAIN dpc :
        /\ dpc[r] = "running" /\ dpc[q] = "done" /\ dexit[q] = "200"
        /\ dslug[q] # dslug[r]
        /\ get_store_slug(dctx[ContextOf(r)]) = dslug[r]

----------------------------------------------------------------------------
(* Properties of _TTLCache, checked under SpecCache *)

(* C9: the cache never holds more than max(1, max_size) entries; a set    *)
(* that overflows evicts exactly the least recently used entries, a get   *)
(* hit and a set both making their key the most recently used.            *)
C9_BoundedLRU ==
    [][/\ Len(cstore') <= Max(1, cmax.arg)
       /\ clast'.op = "set" /\ ctick' = ctick + 1
          => LET key == clast'.key
                 gone == KeysOf(cstore) \ KeysOf(cstore')
                 kept == KeysOf(cstore') \ {key}
                 excess == Cardinality(KeysOf(cstore) \cup {key}) - Max(1, cmax.arg)
             IN  /\ key \in KeysOf(cstore')
                 /\ Cardinality(gone) = Max(0, excess)
                 /\ \A e \in gone : \A k \in kept : cused[e] < cused[k]]_vars

C9_Witness ==
    /\ clast.op = "set" /\ cmax.size = 2 /\ Len(cstore) = 2
    /\ \E k \in DOMAIN cset : cset[k].evicted /\ cused[k] > 1

(* C10: get(key) returns the value of the latest set(key) exactly when    *)
(* that entry has not been evicted and the time is strictly before its    *)
(* expiry, set time + ttl; otherwise it returns absent, and an expired    *)
(* entry that get finds is removed.                                       *)
C10_GetFreshOrAbsent ==
    [][clast'.op = "get" /\ ctick' = ctick + 1
       => LET key == clast'.key
              fresh == /\ key \in DOMAIN cset
                       /\ ~cset[key].evicted
                       /\ cnow < cset[key].at + Max(1, cttl.arg)
          IN  /\ fresh => clast'.result = cset[key].value
              /\ ~fresh => clast'.result = None
              /\ ~fresh => key \notin KeysOf(cstore')]_vars

C10_Witness ==
    /\ clast.op = "get" /\ clast.result = None
    /\ clast.key \in DOMAIN cset
    /\ ~cset[clast.key].evicted
    /\ cnow = cset[clast.key].at + cttl.seconds
    /\ cstore # << >>

----------------------------------------------------------------------------
(* urllib.parse.unquote, token by token: the inverse of quote *)
UnquoteToken(t) == CASE t = "%3A" -> ":" [] t = "%2F" -> "/" [] t = "%20" -> " " [] OTHER -> t

unquote(text) == [i \in 1..Len(text) |-> UnquoteToken(text[i])]

CheckoutOps == { "create_checkout_intent", "get_checkout_link", "checkout_items" }

(* the latest call built a checkout URL for basket b *)
BuiltUrlFor(b) ==
    /\ last.op \in CheckoutOps
    /\ last.code = "ok"
    /\ last.checkout_url # EmptyUrl
    /\ last.result_basket_id = b

(* C16: the checkout URL built for a Shopify basket with lines has exactly *)
(* one segment per basket line, in the order of the lines, and decoding    *)
(* segment i gives the stored variant_id and the stored quantity of line i *)
C16_CheckoutUrlRoundTrip ==
    \A b \in 1..Len(baskets) :
        BuiltUrlFor(b) =>
            /\ Len(last.checkout_url.lines) = Len(items[b])
            /\ \A i \in 1..Len(items[b]) :
                  /\ unquote(last.checkout_url.lines[i].variant_id) = items[b][i].variant_id
                  /\ last.checkout_url.lines[i].quantity = items[b][i].quantity

(* the error codes _add_to_basket returns *)
AddLineErrors == { "invalid_handle", "invalid_quantity", "product_not_found", "no_variants",
                   "variant_not_found", "options_not_found", "variant_selection_required",
                   "missing_variant_id", "variant_unavailable", "basket_scope_error" }

(* the quantity on all lines of all baskets *)
TotalQuantity(its) ==
    SumSeq([b \in 1..Len(its) |-> SumSeq([i \in 1..Len(its[b]) |-> its[b][i].quantity])])

(* the quantity the first n items of a checkout_items call ask for *)
RowsQuantity(rows, n) == SumSeq([j \in 1..n |-> _bounded_quantity(rows[j].quantity)])

(* C17: when add-line fails for an item of checkout_items, the call returns  *)
(* that error with line_index = the 1-based index of the failing item and    *)
(* added_count = the number of items before it; the items before it are in   *)
(* the basket, no later item is added, and no basket changes status,         *)
(* checkout_url or checked_out_at                                            *)
C17_StopsAtFirstFailure ==
    [][(calls' = calls + 1 /\ last'.op = "checkout_items" /\ last'.code \in AddLineErrors) =>
          /\ last'.line_index \in 1..Len(largs'.item_rows)
          /\ last'.added_count = last'.line_index - 1
          /\ TotalQuantity(items') =
                TotalQuantity(items) + RowsQuantity(largs'.item_rows, last'.line_index - 1)
          /\ Len(baskets') >= Len(baskets)
          /\ \A b \in 1..Len(baskets) :
                /\ baskets'[b] = baskets[b]
                /\ Len(items'[b]) >= Len(items[b])
                /\ \A i \in 1..Len(items[b]) :
                      /\ items'[b][i].variant_id = items[b][i].variant_id
                      /\ items'[b][i].quantity >= items[b][i].quantity
          /\ \A b \in (Len(baskets) + 1)..Len(baskets') :
                /\ baskets'[b].status = "active"
                /\ baskets'[b].checkout_url = EmptyUrl
                /\ baskets'[b].checked_out_at = NULL
          /\ \A j \in 1..(last'.line_index - 1) :
                /\ last'.result_basket_id \in 1..Len(baskets')
                /\ \E i \in 1..Len(items'[last'.result_basket_id]) :
                      items'[last'.result_basket_id][i].product_handle
                         = largs'.item_rows[j].handle
    ]_vars

C17_Witness ==
    /\ last.op = "checkout_items"
    /\ last.code = "variant_unavailable"
    /\ last.line_index = 2
    /\ last.added_count = 1
    /\ last.result_basket_id \in 1..Len(baskets)
    /\ \E i \in 1..Len(items[last.result_basket_id]) :
          /\ items[last.result_basket_id][i].product_handle = "cap"
          /\ items[last.result_basket_id][i].quantity = 99

(* the platform of the store a basket is bound to *)
PlatformOf(b) == (CHOOSE st \in Stores(catalog) : st.slug = Strip(baskets[b].store_slug)).platform

(* the product URLs stored on the lines of a basket, blank ones left out *)
RECURSIVE StoredUrls(_)
StoredUrls(rows) ==
    IF rows = << >> THEN << >>
    ELSE (IF Head(rows).product_url = << >> THEN << >> ELSE << Head(rows).product_url >>)
         \o StoredUrls(Tail(rows))

(* C18: create_checkout_intent on a basket with lines whose store is not a   *)
(* Shopify store answers unsupported_platform with the product URLs of the   *)
(* lines and writes nothing: the basket stays active without checkout_url or *)
(* checked_out_at, whatever mark_checked_out is                              *)
C18_UnsupportedPlatform ==
    [][\A b \in 1..Len(baskets) :
          (/\ CallOn(b)
           /\ last'.op = "create_checkout_intent"
           /\ last'.code # "basket_scope_error"
           /\ items[b] # << >>
           /\ PlatformOf(b) # "shopify") =>
              /\ last'.code = "unsupported_platform"
              /\ last'.product_urls = StoredUrls(items[b])
              /\ baskets' = baskets
              /\ items' = items
              /\ baskets'[b].status = "active"
              /\ baskets'[b].checkout_url = EmptyUrl
              /\ baskets'[b].checked_out_at = NULL
    ]_vars

C18_Witness ==
    /\ last.op = "create_checkout_intent"
    /\ last.mark
    /\ last.code = "unsupported_platform"
    /\ last.product_urls = << TeeB.url >>
    /\ last.result_basket_id \in 1..Len(baskets)
    /\ baskets[last.result_basket_id].status = "active"

(* C19: create_checkout_intent and get_checkout_link on a basket without *)
(* lines answer empty_basket and leave the basket's status, checkout_url *)
(* and checked_out_at as they were, whatever mark_checked_out is         *)
C19_EmptyBasket ==
    [][\A b \in 1..Len(baskets) :
          (/\ CallOn(b)
           /\ last'.op \in { "create_checkout_intent", "get_checkout_link" }
           /\ last'.code # "basket_scope_error"
           /\ items[b] = << >>) =>
              /\ last'.code = "empty_basket"
              /\ baskets' = baskets
              /\ items' = items
    ]_vars

C19_Witness ==
    /\ last.op = "create_checkout_intent"
    /\ last.mark
    /\ last.code = "empty_basket"
    /\ last.result_basket_id \in 1..Len(baskets)
    /\ items[last.result_basket_id] = << >>
    /\ baskets[last.result_basket_id].status = "active"
    /\ baskets[last.result_basket_id].checkout_url = EmptyUrl

(* the rows without row i *)
Without(rows, i) == [j \in 1..(Len(rows) - 1) |-> IF j < i THEN rows[j] ELSE rows[j + 1]]

(* what update_basket_item(variant_id v, quantity q) is to leave of rows *)
UpdatedRows(rows, after, code, v, q) ==
    IF \E i \in 1..Len(rows) : rows[i].variant_id = v
    THEN /\ code = "ok"
         /\ \A i \in 1..Len(rows) :
               rows[i].variant_id = v =>
                  after = IF q <= 0 THEN Without(rows, i)
                          ELSE [rows EXCEPT ![i].quantity = Min(_BASKET_MAX_QUANTITY, q)]
    ELSE /\ after = rows
         /\ code = IF q <= 0 THEN "ok" ELSE "basket_line_not_found"

(* C20: update_basket_item on an active basket deletes the line of the     *)
(* variant when quantity <= 0; with quantity > 0 it sets the quantity of   *)
(* the line there is to min(99, quantity), not adding to it; with          *)
(* quantity > 0 and no such line it answers basket_line_not_found and      *)
(* changes no line                                                         *)
C20_UpdateBasketItem ==
    [][\A b \in 1..Len(baskets) :
          (/\ CallOn(b)
           /\ last'.op = "update_basket_item"
           /\ last'.code \notin { "basket_scope_error", "invalid_variant_id" }
           /\ baskets[b].status = "active") =>
              /\ UpdatedRows(items[b], items'[b], last'.code,
                             Strip(largs'.item.variant_id), largs'.item.quantity)
              /\ baskets' = baskets
              /\ \A c \in 1..Len(baskets) : c # b => items'[c] = items[c]
    ]_vars

C20_Witness ==
    /\ last.op = "update_basket_item"
    /\ last.code = "ok"
    /\ largs.item.quantity = 100
    /\ last.result_basket_id \in 1..Len(baskets)
    /\ \E i \in 1..Len(items[last.result_basket_id]) :
          /\ items[last.result_basket_id][i].variant_id = Strip(largs.item.variant_id)
          /\ items[last.result_basket_id][i].quantity = _BASKET_MAX_QUANTITY

----------------------------------------------------------------------------
(* Properties of the search tools *)

(* the share of one ranking in the score of a product *)
Contribution(ranking, product_id) ==
    IF \E j \in 1..Len(ranking) : ranking[j].product_id = product_id
    THEN ScoreScale \div
            (_RRF_K + ranking[CHOOSE j \in 1..Len(ranking) :
                                 ranking[j].product_id = product_id].rank)
    ELSE 0

RankedIds(ranking) == { ranking[j].product_id : j \in 1..Len(ranking) }

(* C15: _rrf_fuse gives each product id the sum over the rankings of         *)
(* 1 / (60 + rank); it returns min(limit, number of ids) entries, the        *)
(* highest scoring ones, by descending score and, for equal scores, by       *)
(* ascending product_id; the result is the same for the rankings in either   *)
(* order                                                                     *)
C15_RrfFuse ==
    /\ Len(flast.fused) =
          Min(flast.limit,
              Cardinality(RankedIds(flast.rankings[1]) \cup RankedIds(flast.rankings[2])))
    /\ \A k \in 1..Len(flast.fused) :
          /\ flast.fused[k].product_id
                \in RankedIds(flast.rankings[1]) \cup RankedIds(flast.rankings[2])
          /\ flast.fused[k].score =
                Contribution(flast.rankings[1], flast.fused[k].product_id)
                + Contribution(flast.rankings[2], flast.fused[k].product_id)
    /\ \A k \in 1..(Len(flast.fused) - 1) :
          \/ flast.fused[k].score > flast.fused[k + 1].score
          \/ /\ flast.fused[k].score = flast.fused[k + 1].score
             /\ TextLess(flast.fused[k].product_id, flast.fused[k + 1].product_id)
    /\ \A id \in RankedIds(flast.rankings[1]) \cup RankedIds(flast.rankings[2]) :
          \/ \E k \in 1..Len(flast.fused) : flast.fused[k].product_id = id
          \/ \A k \in 1..Len(flast.fused) :
                \/ flast.fused[k].score >
                      Contribution(flast.rankings[1], id) + Contribution(flast.rankings[2], id)
                \/ /\ flast.fused[k].score =
                         Contribution(flast.rankings[1], id)
                         + Contribution(flast.rankings[2], id)
                   /\ TextLess(flast.fused[k].product_id, id)
    /\ _rrf_fuse(<< flast.rankings[2], flast.rankings[1] >>, flast.limit) = flast.fused

(* two products share a score and come out by ascending product_id *)
C15_Witness ==
    /\ Len(flast.fused) = 2
    /\ flast.fused[1].score = flast.fused[2].score
    /\ flast.fused[1].product_id = << "a" >>
    /\ flast.fused[2].product_id = << "a", "b" >>
    /\ flast.rankings[1] # flast.rankings[2]
    /\ flast.limit = 2

SearchOps == { "no_query", "hit", "miss" }

(* C11: a cache hit returns the response that was stored under the key, *)
(* with cache_hit set, whatever the callers did to the responses they   *)
(* were given before                                                    *)
C11_HitReturnsStored ==
    slast.op = "hit" =>
        slast.response = [sstored[slast.cache_key] EXCEPT !.cache_hit = TRUE]

(* C12: the JSON text of every search_products_v2 response is at most *)
(* 12288 bytes                                                        *)
C12_ResponseWithinLimit ==
    slast.op \in SearchOps => _serialize_bytes(slast.response) <= _V2_PAYLOAD_LIMIT_BYTES

(* C13: every search_products_v2 response has at most min(limit, 8) results *)
C13_ResultsWithinLimit ==
    slast.op \in SearchOps =>
        Len(slast.response.results) <= Min(slast.limit, _MAX_V2_RESULTS)

(* the payload with the first n of its results and truncated set *)
Truncated(payload, n) ==
    [payload EXCEPT !.results = SubSeq(payload.results, 1, n), !.truncated = TRUE]

(* C14: _enforce_payload_cap returns a payload that fits unchanged, with   *)
(* truncated false; otherwise it returns the payload with the longest      *)
(* prefix of its results that fits with truncated true; truncated is true  *)
(* exactly when a result was removed                                       *)
C14_EnforcePayloadCap ==
    slast.op = "miss" =>
        /\ _serialize_bytes(slast.uncapped) <= _V2_PAYLOAD_LIMIT_BYTES
              => slast.capped = slast.uncapped /\ ~slast.capped.truncated
        /\ _serialize_bytes(slast.uncapped) > _V2_PAYLOAD_LIMIT_BYTES
              => /\ Len(slast.capped.results) <= Len(slast.uncapped.results)
                 /\ slast.capped = Truncated(slast.uncapped, Len(slast.capped.results))
                 /\ _serialize_bytes(slast.capped) <= _V2_PAYLOAD_LIMIT_BYTES
                 /\ \A n \in (Len(slast.capped.results) + 1)..Len(slast.uncapped.results) :
                       _serialize_bytes(Truncated(slast.uncapped, n)) > _V2_PAYLOAD_LIMIT_BYTES
        /\ slast.capped.truncated
              <=> Len(slast.capped.results) < Len(slast.uncapped.results)

----------------------------------------------------------------------------
(* Further properties of the basket manager *)

(* C21: remove_from_basket leaves the baskets and lines, and answers, as   *)
(* update_basket_item with quantity 0 does from the same state with the    *)
(* same basket_id, variant_id and slug; where the basket is active and has *)
(* no line of the variant it answers ok and changes no basket and no line  *)
C21_RemoveIsUpdateZero ==
    [][(calls' = calls + 1 /\ last'.op = "remove_from_basket") =>
          /\ \E ss \in SlugScopes :
                LET o == _update_basket_item(DB, Stores(catalog), Products(catalog),
                                             last'.basket_id, largs'.item.variant_id, 0,
                                             ss[1], ss[2])
                IN /\ baskets' = o.db.baskets
                   /\ items' = o.db.items
                   /\ last' = Call("remove_from_basket", last'.basket_id, FALSE, o)
          /\ \A b \in 1..Len(baskets) :
                (/\ last'.basket_id = b
                 /\ last'.code \notin { "basket_scope_error", "invalid_variant_id" }
                 /\ baskets[b].status = "active"
                 /\ \A i \in 1..Len(items[b]) :
                       items[b][i].variant_id # Strip(largs'.item.variant_id)) =>
                    /\ last'.code = "ok"
                    /\ baskets' = baskets
                    /\ items' = items
    ]_vars

C21_Witness ==
    /\ last.op = "remove_from_basket"
    /\ last.code = "ok"
    /\ largs.item.variant_id = V1.id
    /\ last.result_basket_id \in 1..Len(baskets)
    /\ items[last.result_basket_id] = << >>

(* the variants of the catalog sold under variant id v in store s, by the *)
(* availability column of the catalog                                     *)
CatalogVariants(s, v) ==
    UNION { { p.variants[k] : k \in { j \in 1..Len(p.variants) : Strip(p.variants[j].id) = v } } :
            p \in { q \in Products(catalog) : q.store_slug = s } }

(* C23: add_to_basket stores no line for a variant that is unavailable    *)
(* when the line is added, and every add_to_basket error (invalid_handle, *)
(* invalid_quantity, product_not_found, a variant resolution failure,     *)
(* missing_variant_id, variant_unavailable, basket_scope_error) leaves    *)
(* the baskets and all lines as they were, creating no basket             *)
C23_AddErrorsWriteNothing ==
    [][(calls' = calls + 1 /\ last'.op = "add_to_basket") =>
          /\ last'.code \in AddLineErrors \cup { "ok", "raise" }
          /\ last'.code # "ok" => (baskets' = baskets /\ items' = items)
          /\ \A b \in 1..Len(items') : \A i \in 1..Len(items'[b]) :
                (b > Len(items) \/ i > Len(items[b]) \/ items'[b][i] # items[b][i]) =>
                   /\ items'[b][i].available
                   /\ \E v \in CatalogVariants(baskets'[b].store_slug, items'[b][i].variant_id) :
                         v.available
    ]_vars

C23_Witness ==
    /\ last.op = "add_to_basket"
    /\ last.code = "variant_unavailable"
    /\ largs.item.options # NoOptions
    /\ calls = 2
    /\ Len(baskets) > 0

----------------------------------------------------------------------------
(* add_to_basket on the products that give their price as an integer *)

PricedHandles == { "red-tee", "blue-tee" }
PricedQuantities == { 1, 2 }

InitPriced ==
    /\ catalog = "acme"
    /\ baskets = << >> /\ items = << >> /\ calls = 0 /\ largs = NoArgs
    /\ last = [op |-> "init", basket_id |-> NoBasket, mark |-> FALSE, code |-> "ok",
               store_slug |-> << >>, result_basket_id |-> NoBasket, payload |-> NoPayload,
               checkout_url |-> EmptyUrl, line_index |-> 0, added_count |-> 0,
               product_urls |-> << >>]
    /\ CacheIdle /\ ResolveIdle /\ DispatchIdle /\ FuseIdle /\ VariantIdle /\ RankIdle /\ EndpointIdle /\ ApplyIdle /\ TaskIdle /\ EmbedIdle /\ SearchIdle

AddPriced ==
    /\ calls < MaxCalls
    /\ \E handle \in PricedHandles, quantity \in PricedQuantities, basket_id \in BasketArgs :
          \E o \in {
                 _add_to_basket(DB, Stores(catalog), Products(catalog), handle, quantity,
                 NoOptions, NoneText, basket_id, NoneText, NoneText) } :
             /\ Commit("add_to_basket", basket_id, FALSE, o)
             /\ largs' = Args(Item(handle, quantity, NoneText, NoOptions), << >>)

NextPriced == AddPriced \/ GetBasket

SpecPriced == InitPriced /\ [][NextPriced]_vars

(* C24: add_to_basket for a product whose one available variant carries   *)
(* its price as the integer 1999 takes unit_price = 1999 cents: adding    *)
(* quantity 2 to a new basket gives subtotal 3998 and one line of         *)
(* quantity 2, and a second add of quantity 2 to that basket gives one    *)
(* line of quantity 4                                                     *)
C24_IntegerPriceIsCents ==
    (/\ last.op = "add_to_basket"
     /\ last.code = "ok"
     /\ largs.item.quantity = 2
     /\ last.payload.item_count = 1) =>
        /\ last.payload.items[1].unit_price = 1999
        /\ last.payload.items[1].quantity \in { 2, 4 }
        /\ last.payload.items[1].quantity = 2 => last.payload.subtotal = 3998
        /\ last.payload.items[1].quantity = 4 => last.payload.subtotal = 7996

----------------------------------------------------------------------------
(* _resolve_variant_for_cart on products of every shape: no variant, one    *)
(* variant, several variants of which none, one or two are available, two   *)
(* variants under one id, two variants matching the same options            *)

V5 == [id |-> << "v5" >>, available |-> TRUE, price |-> NoPrice, options |-> << <<"Size", "S">> >>]
V6 == [id |-> << "v6" >>, available |-> TRUE, price |-> NoPrice,
       options |-> << <<"Size", "S">>, <<"fit", "slim">> >>]
V7 == [id |-> << "v7" >>, available |-> FALSE, price |-> NoPrice, options |-> NoOptions]
V8 == [id |-> << "v7" >>, available |-> FALSE, price |-> NoPrice, options |-> << <<"fit", "slim">> >>]

VariantLists == { << >>, << V3 >>, << V7 >>, << V1, V2 >>, << V5, V6 >>, << V7, V8 >>,
                  << V2, V7, V5 >> }
VariantIds == { NoneText, << " " >>, << "v7" >>, << " ", "v2", " " >>, << "v9" >> }
OptionArgs == { NoOptions, << <<"Size", "">> >>, << <<"SIZE", "s">> >>, << <<"fit", "slim">> >>,
                << <<"size", "M">>, <<"fit", "slim">> >> }

ResolveVariant ==
    \E variants \in VariantLists, variant_id \in VariantIds, options \in OptionArgs :
       \E sel \in { _resolve_variant_for_cart([variants |-> variants], variant_id, options) } :
          /\ ~vlast.applied
          /\ vlast' = [applied |-> TRUE, product |-> [variants |-> variants],
                       variant_id |-> variant_id, options |-> options,
                       variant |-> sel.variant, reason |-> sel.reason]
          /\ UNCHANGED << basketVars, cacheVars, resolveVars, dispatchVars, fuseVars, rankVars, endpointVars, applyVars, taskVars, embedVars, searchVars >>

InitVariant ==
    BasketIdle /\ CacheIdle /\ ResolveIdle /\ DispatchIdle /\ FuseIdle /\ VariantIdle /\ RankIdle /\ EndpointIdle /\ ApplyIdle /\ TaskIdle /\ EmbedIdle /\ SearchIdle

NextVariant == ResolveVariant

SpecVariant == InitVariant /\ [][NextVariant]_vars

(* v is the variant of vs at the first of the positions hits *)
IsFirst(vs, hits, v) ==
    \E i \in hits : v = vs[i] /\ \A j \in hits : i <= j

(* C22: _resolve_variant_for_cart answers no_variants for a product        *)
(* without variants; else with a non-blank variant_id the variant of that  *)
(* id or variant_not_found, whatever the options; else with non-empty      *)
(* normalized options the first variant whose lowercased options include   *)
(* them or options_not_found; else the one available variant when exactly  *)
(* one is available; else the only variant when there is exactly one; else *)
(* variant_selection_required                                              *)
C22_VariantSelection ==
    vlast.applied =>
       LET vs == vlast.product.variants
           id == Strip(vlast.variant_id)
           want == _normalize_options(vlast.options)
           same_id == { i \in 1..Len(vs) : vs[i].id = id }
           fitting == { i \in 1..Len(vs) : want \subseteq _normalize_options(vs[i].options) }
           on_sale == { i \in 1..Len(vs) : vs[i].available }
           picked(hits) == vlast.reason = None /\ IsFirst(vs, hits, vlast.variant)
           failed(reason) == vlast.reason = reason /\ vlast.variant = NoVariant
       IN  CASE Len(vs) = 0 -> failed("no_variants")
             [] Len(vs) > 0 /\ id # << >> ->
                   IF same_id # {} THEN picked(same_id) ELSE failed("variant_not_found")
             [] Len(vs) > 0 /\ id = << >> /\ want # {} ->
                   IF fitting # {} THEN picked(fitting) ELSE failed("options_not_found")
             [] Len(vs) > 0 /\ id = << >> /\ want = {} /\ Cardinality(on_sale) = 1 ->
                   picked(on_sale)
             [] Len(vs) = 1 /\ id = << >> /\ want = {} /\ Cardinality(on_sale) # 1 ->
                   vlast.reason = None /\ vlast.variant = vs[1]
             [] OTHER -> failed("variant_selection_required")

C22_Witness ==
    /\ vlast.applied
    /\ vlast.variant_id = << " " >>
    /\ vlast.options = << <<"SIZE", "s">> >>
    /\ vlast.product.variants = << V5, V6 >>
    /\ vlast.variant = V5

----------------------------------------------------------------------------
(* Properties of the store-slug resolver's automatic selection *)

(* slug s has the most rows of rows; among equals it is the first by name *)
MostMatches(rows, s) ==
    /\ s \in SlugsOf(rows)
    /\ \A t \in SlugsOf(rows) \ {s} :
          \/ MatchCount(rows, s) > MatchCount(rows, t)
          \/ MatchCount(rows, s) = MatchCount(rows, t) /\ TextLess(s, t)

(* the resolver was asked without an explicit slug and outside a scope *)
AutoSelected ==
    /\ rlast.result.kind # "init"
    /\ Strip(rlast.slug) = << >>
    /\ Strip(rlast.scope) = << >>

(* C25: without an explicit or scoped slug and with no probe failing, the *)
(* store is the first non-empty of: the store with the most full-text     *)
(* matches of the hint (ties by ascending slug); the store with the most  *)
(* LIKE matches of the hint (same order); the store with the highest      *)
(* positive product_count; the most recently indexed store.  The two      *)
(* hint tiers are tried only when the hint is not blank.                  *)
C25_TierOrder ==
    (AutoSelected /\ rlast.fail = {}) =>
       LET S == Stores(catalog)
           P == Products(catalog)
           hinted == rlast.hint \notin { None, "", " " }
           fts == { p \in P : hinted /\ rlast.hint \in p.fts }
           fuzzy == { p \in P : hinted /\ rlast.hint \in p.like }
           stocked == { s \in S : s.product_count > 0 }
           res == rlast.result
       IN  CASE fts # {} -> res.kind = "fts" /\ MostMatches(fts, res.slug)
             [] fts = {} /\ fuzzy # {} -> res.kind = "fuzzy" /\ MostMatches(fuzzy, res.slug)
             [] fts = {} /\ fuzzy = {} /\ stocked # {} ->
                   /\ res.kind = "preferred"
                   /\ \E s \in stocked : /\ s.slug = res.slug
                                         /\ \A t \in stocked : s.product_count >= t.product_count
             [] fts = {} /\ fuzzy = {} /\ stocked = {} /\ S # {} ->
                   /\ res.kind = "fallback"
                   /\ \E s \in S : /\ s.slug = res.slug
                                   /\ \A t \in S : s.indexed_at >= t.indexed_at
             [] OTHER -> res.kind = "raise_no_stores"

C25_Witness ==
    /\ AutoSelected /\ rlast.fail = {}
    /\ catalog = "full"
    /\ rlast.hint = "tee"
    /\ rlast.result = Resolved("fts", B)

(* the tiers of the automatic selection that have a store to give *)
NonEmptyTiers ==
    LET hinted == rlast.hint \notin { None, "", " " }
    IN  { k \in Probes :
            CASE k = "fts" -> \E p \in Products(catalog) : hinted /\ rlast.hint \in p.fts
              [] k = "fuzzy" -> \E p \in Products(catalog) : hinted /\ rlast.hint \in p.like
              [] k = "preferred" -> \E s \in Stores(catalog) : s.product_count > 0
              [] k = "fallback" -> Stores(catalog) # {} }

(* C26: a failing database probe of any tier is swallowed and the        *)
(* selection goes on with the next tier; the resolver raises only when   *)
(* every tier that did not fail is empty                                 *)
C26_ProbeFailuresSwallowed ==
    AutoSelected =>
       /\ rlast.result.kind # "raise_db"
       /\ Raised(rlast.result) => NonEmptyTiers \subseteq rlast.fail
       /\ ~Raised(rlast.result) => rlast.result.kind \in NonEmptyTiers \ rlast.fail

----------------------------------------------------------------------------
(* The ranking stage of search_products and search_products_v2: the query  *)
(* embedding, the vector-distance query and the fusion with the full-text  *)
(* ranking.  embed is what embedder.embed_query gives (a vector, None or   *)
(* an exception), vector_query what pool.fetch gives for the vector query  *)
(* (rows or an exception).                                                 *)

EmbedOutcomes == { "vector", "none", "raise" }
QueryOutcomes == { "rows", "raise" }
SearchTools == { "search_products", "search_products_v2" }
(* the clamped limit of a search: 1..50 in search_products, 1..8 in v2 *)
RankLimits == { 1, _MAX_V2_RESULTS }

Ranked(raised, fused) == [raised |-> raised, fused |-> fused]

(* _search_products: embedding and vector query inside one try/except *)
_search_products_ranking(limit, enabled, embed, vector_query, vector_rows, fts_ranked) ==
    LET vector_ranked == IF enabled /\ embed = "vector" /\ vector_query = "rows"
                         THEN vector_rows ELSE << >>
    IN  Ranked(FALSE, _rrf_fuse(<< vector_ranked, fts_ranked >>, Max(limit * 5, limit)))

(* _search_products_v2: the embedding inside try/except, the vector query *)
(* outside of it                                                          *)
_search_products_v2_ranking(limit, enabled, embed, vector_query, vector_rows, fts_ranked) ==
    LET embedding == IF enabled /\ embed = "vector" THEN "vector" ELSE "none"
        candidate_limit == Max(100, limit * 20)
    IN  IF embedding = "none"
        THEN Ranked(FALSE, _rrf_fuse(<< << >>, fts_ranked >>, Max(candidate_limit, 120)))
        ELSE IF vector_query = "raise" THEN Ranked(TRUE, << >>)
        ELSE Ranked(FALSE, _rrf_fuse(<< vector_rows, fts_ranked >>, Max(candidate_limit, 120)))

RankSearch ==
    \E tool \in SearchTools, limit \in RankLimits, enabled \in BOOLEAN, embed \in EmbedOutcomes,
       vector_query \in QueryOutcomes, vector_rows \in Rankings, fts_ranked \in Rankings :
       \E r \in { IF tool = "search_products"
                  THEN _search_products_ranking(limit, enabled, embed, vector_query, vector_rows,
                                                fts_ranked)
                  ELSE _search_products_v2_ranking(limit, enabled, embed, vector_query, vector_rows,
                                                   fts_ranked) } :
          /\ klast.tool = "none"
          /\ klast' = [tool |-> tool, limit |-> limit, enabled |-> enabled, embed |-> embed,
                       vector_query |-> vector_query, vector_rows |-> vector_rows,
                       fts_ranked |-> fts_ranked, raised |-> r.raised, fused |-> r.fused]
          /\ UNCHANGED << basketVars, cacheVars, resolveVars, dispatchVars, fuseVars,
                          variantVars, endpointVars, applyVars, taskVars, embedVars, searchVars >>

InitRank ==
    /\ BasketIdle /\ CacheIdle /\ ResolveIdle /\ DispatchIdle /\ FuseIdle
    /\ VariantIdle /\ RankIdle /\ EndpointIdle /\ ApplyIdle /\ TaskIdle /\ EmbedIdle /\ SearchIdle

NextRank == RankSearch

SpecRank == InitRank /\ [][NextRank]_vars

(* the embedding call or the vector query of the latest search failed *)
VectorStageFailed ==
    /\ klast.tool # "none"
    /\ klast.enabled
    /\ \/ klast.embed = "raise"
       \/ klast.embed = "vector" /\ klast.vector_query = "raise"

(* C27: in search_products and in search_products_v2 a failure of the     *)
(* embedding call or of the vector-distance query does not fail the       *)
(* search; the vector ranking counts as empty and the ranking is the one  *)
(* of the full-text rows alone                                            *)
C27_VectorFailureTolerated ==
    VectorStageFailed =>
       /\ ~klast.raised
       /\ klast.fused = _rrf_fuse(<< << >>, klast.fts_ranked >>, Len(klast.fts_ranked))

----------------------------------------------------------------------------
(* The tool endpoints POST /mcp/{slug}/tool/{tool} and /mcp/tool/{tool}:   *)
(* from the request to the HTTP status and the response body.  A JSON      *)
(* value is a record with its type; an object carries the set of its keys  *)
(* other than "arguments" and the value under "arguments", if any.         *)

BaseTools == { "list_stores", "search_products", "get_basket", "list_categories" }
V2Tools == { "search_products_v2", "get_product_brief_v2" }
ToolNames == BaseTools \cup V2Tools \cup { "nope" }

(* tool_map of register_tools: the v2 tools only under _V2_ENABLED *)
register_tools(v2_enabled) == BaseTools \cup (IF v2_enabled THEN V2Tools ELSE {})

(* the parameters of a tool without a default, and all its parameters *)
RequiredParams(tool) ==
    CASE tool \in { "search_products", "search_products_v2" } -> { "query" }
      [] tool = "get_basket" -> { "basket_id" }
      [] tool = "get_product_brief_v2" -> { "handle" }
      [] OTHER -> {}

AllParams(tool) ==
    CASE tool = "list_stores" -> { "limit" }
      [] tool = "search_products" -> { "query", "max_results", "available_only", "slug" }
      [] tool = "search_products_v2" -> { "query", "slug", "limit", "available_only" }
      [] tool = "get_basket" -> { "basket_id", "slug" }
      [] tool = "get_product_brief_v2" -> { "handle", "slug" }
      [] OTHER -> { "slug" }

(* what the tool's body touches once it runs *)
ToolEffects(tool) ==
    IF tool = "search_products_v2" THEN { "cache", "embedding", "db" } ELSE { "db" }

(* the tool function called with keyword arguments keys *)
CallTool(v2_enabled, tool, keys) ==
    IF ~(keys \subseteq AllParams(tool)) \/ ~(RequiredParams(tool) \subseteq keys)
    THEN [raised |-> "TypeError", type |-> "none", code |-> "none", effects |-> {}]
    ELSE IF tool \in V2Tools /\ ~v2_enabled
    THEN [raised |-> "no", type |-> "dict", code |-> "v2_disabled", effects |-> {}]
    ELSE [raised |-> "no", type |-> IF tool = "search_products" THEN "list" ELSE "dict",
          code |-> "ok", effects |-> ToolEffects(tool)]

JAbsent == [type |-> "absent", keys |-> {}]
JList == [type |-> "list", keys |-> {}]
JNull == [type |-> "null", keys |-> {}]
JDict(keys) == [type |-> "dict", keys |-> keys]
JObject(keys, arguments) == [type |-> "dict", keys |-> keys, arguments |-> arguments]

KeySets == { {}, { "query" }, { "query", "slug" }, { "basket_id" }, { "handle" }, { "bogus" } }
JsonBodies ==
    { JObject(ks, JAbsent) : ks \in KeySets }
    \cup { JObject({}, JDict(ks)) : ks \in KeySets }
    \cup { JObject({ "query" }, JList), JObject({}, JNull),
           [type |-> "list", keys |-> {}, arguments |-> JAbsent],
           [type |-> "str", keys |-> {}, arguments |-> JAbsent] }
ContentTypes == { "application/json", "text/plain" }

HttpResponse(status, invoked, wrapped, result) ==
    [status |-> status, invoked |-> invoked, wrapped |-> wrapped, code |-> result.code,
     effects |-> result.effects]

NoResult == [raised |-> "no", type |-> "none", code |-> "none", effects |-> {}]

(* invoke_tool from the call of the tool on *)
Invoked(result) ==
    IF result.raised = "TypeError" THEN HttpResponse(400, TRUE, FALSE, result)
    ELSE HttpResponse(200, TRUE, result.type # "dict", result)

(* invoke_tool (slugged) and invoke_tool_base *)
invoke_tool(v2_enabled, slugged, tool, content_type, body) ==
    LET parsed == IF content_type = "application/json" THEN body ELSE JObject({}, JAbsent)
        payload == IF parsed.type # "dict" THEN JObject({}, JAbsent) ELSE parsed
        arguments == IF payload.arguments.type # "absent" THEN payload.arguments
                     ELSE JDict(payload.keys)
        keys == IF slugged THEN arguments.keys \cup { "slug" } ELSE arguments.keys
    IN  IF tool \notin register_tools(v2_enabled) THEN HttpResponse(404, FALSE, FALSE, NoResult)
        ELSE IF arguments.type # "dict" THEN HttpResponse(400, FALSE, FALSE, NoResult)
        ELSE Invoked(CallTool(v2_enabled, tool, keys))

Endpoint ==
    \E v2_enabled \in BOOLEAN, slugged \in BOOLEAN, tool \in ToolNames,
       content_type \in ContentTypes, body \in JsonBodies :
       /\ ~elast.done
       /\ elast' = [done |-> TRUE, v2_enabled |-> v2_enabled, slugged |-> slugged,
                    tool |-> tool, content_type |-> content_type, body |-> body,
                    response |-> invoke_tool(v2_enabled, slugged, tool, content_type, body)]
       /\ UNCHANGED << basketVars, cacheVars, resolveVars, dispatchVars, fuseVars,
                       variantVars, rankVars, applyVars, taskVars, embedVars, searchVars >>

InitEndpoint ==
    /\ BasketIdle /\ CacheIdle /\ ResolveIdle /\ DispatchIdle /\ FuseIdle
    /\ VariantIdle /\ RankIdle /\ EndpointIdle /\ ApplyIdle /\ TaskIdle /\ EmbedIdle /\ SearchIdle

NextEndpoint == Endpoint

SpecEndpoint == InitEndpoint /\ [][NextEndpoint]_vars

(* the request body is JSON and not an object, or its arguments are not *)
NotAnObject ==
    /\ elast.content_type = "application/json"
    /\ \/ elast.body.type # "dict"
       \/ elast.body.arguments.type \notin { "absent", "dict" }

(* the keyword arguments the tool is called with *)
GivenKeys ==
    LET given == IF elast.content_type # "application/json" THEN {}
                 ELSE IF elast.body.arguments.type = "dict" THEN elast.body.arguments.keys
                 ELSE elast.body.keys
    IN  IF elast.slugged THEN given \cup { "slug" } ELSE given

(* C28: the tool endpoints answer 404 for an unknown tool name without    *)
(* calling anything, 400 whenever the arguments are not a JSON object     *)
(* (a request body that is itself a JSON value other than an object       *)
(* included), 400 when the arguments do not fit the tool's parameters,    *)
(* and 200 with a JSON map otherwise, a result that is not a map being    *)
(* wrapped as {"results": value}                                          *)
C28_EndpointStatus ==
    elast.done =>
       LET r == elast.response
           known == elast.tool \in BaseTools \/ (elast.v2_enabled /\ elast.tool \in V2Tools)
           fits == /\ GivenKeys \subseteq AllParams(elast.tool)
                   /\ RequiredParams(elast.tool) \subseteq GivenKeys
       IN  CASE ~known -> r.status = 404 /\ ~r.invoked
             [] known /\ NotAnObject -> r.status = 400
             [] known /\ ~NotAnObject /\ ~fits -> r.status = 400
             [] OTHER -> /\ r.status = 200
                         /\ r.wrapped = (elast.tool = "search_products")

(* C29: with the v2 flag off, search_products_v2 and get_product_brief_v2 *)
(* called through the tool endpoints answer code v2_disabled, with no     *)
(* database query, embedding call or cache access                         *)
C29_V2Disabled ==
    (elast.done /\ ~elast.v2_enabled /\ elast.tool \in V2Tools) =>
       /\ elast.response.code = "v2_disabled"
       /\ elast.response.effects = {}

----------------------------------------------------------------------------
(* Properties of the search cache key *)

(* C30: the cache key of search_products_v2 tells call signatures apart:  *)
(* a call reads from the cache only a response stored by a call with the  *)
(* same resolved slug and lowercased query, and the response it is given  *)
(* on a hit is marked cache_hit                                           *)
C30_CacheKeyInjective ==
    slast.op = "hit" =>
       /\ slast.response.cache_hit
       /\ slast.response.store_slug = Strip(slast.slug)
       /\ LowerText(slast.response.query) = LowerText(Strip(slast.query))

----------------------------------------------------------------------------
(* Properties of the stored basket rows *)

(* C40: in every state reached by tool calls made one after the other, a  *)
(* checked_out basket has a non-empty stored checkout_url, a checked_out_at *)
(* that is not null and at least one line, and an active basket has a null *)
(* checked_out_at                                                          *)
C40_CheckedOutRows ==
    \A b \in 1..Len(baskets) :
       /\ baskets[b].status = "checked_out" =>
             /\ baskets[b].checkout_url # EmptyUrl
             /\ baskets[b].checkout_url.base # << >>
             /\ baskets[b].checked_out_at # NULL
             /\ Len(items[b]) >= 1
       /\ baskets[b].status = "active" => baskets[b].checked_out_at = NULL

C40_Witness ==
    \E b \in 1..Len(baskets) :
       /\ baskets[b].status = "checked_out"
       /\ last.op \in { "get_basket", "get_checkout_link", "create_checkout_intent" }
       /\ last.result_basket_id = b
       /\ calls = 2

----------------------------------------------------------------------------
(* search_products from the fused ranking on: hydration, the availability  *)
(* filter and the limit.  A catalog product carries the available column   *)
(* of its row and the variants of its data; rows[id] is the product the    *)
(* hydration finds for id, Missing for none.                               *)

Missing == [found |-> FALSE, available |-> FALSE, variants |-> << >>]
CatalogRow(available, variants) == [found |-> TRUE, available |-> available, variants |-> variants]
CatalogRows == { Missing, CatalogRow(TRUE, << >>), CatalogRow(FALSE, << >>),
                 CatalogRow(FALSE, << V3 >>), CatalogRow(TRUE, << V7 >>),
                 CatalogRow(TRUE, << V2, V3 >>) }

(* the sequences of distinct product ids: what _rrf_fuse returns *)
FusedOrders ==
    { << >> } \cup { << a >> : a \in ProductIds }
    \cup { o \in [1..2 -> ProductIds] : o[1] # o[2] }
    \cup { o \in [1..3 -> ProductIds] : o[1] # o[2] /\ o[1] # o[3] /\ o[2] # o[3] }

MaxResultsArgs == { -1, 1, 2, 60 }

(* "available" of _product_summary *)
SummaryAvailable(product) ==
    IF Len(product.variants) > 0
    THEN \E i \in 1..Len(product.variants) : _variant_available(product.variants[i])
    ELSE product.available

(* the loop of _search_products over product_ids, results so far given *)
RECURSIVE CollectResults(_, _, _, _, _)
CollectResults(product_ids, rows, available_only, limit, results) ==
    IF product_ids = << >> \/ Len(results) >= limit THEN results
    ELSE LET product == rows[Head(product_ids)]
         IN  IF ~product.found
             THEN CollectResults(Tail(product_ids), rows, available_only, limit, results)
             ELSE IF available_only /\ ~SummaryAvailable(product)
             THEN CollectResults(Tail(product_ids), rows, available_only, limit, results)
             ELSE CollectResults(Tail(product_ids), rows, available_only, limit,
                                 Append(results, Head(product_ids)))

(* _search_products from the fused ids on; the results by product id *)
_search_products(product_ids, rows, max_results, available_only) ==
    CollectResults(product_ids, rows, available_only, Max(1, Min(max_results, 50)), << >>)

SearchProducts ==
    /\ alast.op = "none"
    /\ \E product_ids \in FusedOrders, rows \in [ProductIds -> CatalogRows],
          max_results \in MaxResultsArgs, available_only \in BOOLEAN :
       /\ alast' = [op |-> "search_products", product_ids |-> product_ids, rows |-> rows,
                    max_results |-> max_results, available_only |-> available_only,
                    results |-> _search_products(product_ids, rows, max_results,
                                                 available_only)]
       /\ UNCHANGED << basketVars, cacheVars, resolveVars, dispatchVars, fuseVars, variantVars,
                       rankVars, endpointVars, taskVars, embedVars, searchVars >>

InitApply ==
    /\ BasketIdle /\ CacheIdle /\ ResolveIdle /\ DispatchIdle /\ FuseIdle /\ VariantIdle
    /\ RankIdle /\ EndpointIdle /\ ApplyIdle /\ TaskIdle /\ EmbedIdle /\ SearchIdle

NextLegacy == SearchProducts

SpecLegacy == InitApply /\ [][NextLegacy]_vars

(* the elements of s that are in set keep, in the order of s *)
RECURSIVE Restrict(_, _)
Restrict(s, keep) ==
    IF s = << >> THEN << >>
    ELSE IF Head(s) \in keep THEN << Head(s) >> \o Restrict(Tail(s), keep)
    ELSE Restrict(Tail(s), keep)

(* C31: search_products returns at most limit results, limit being        *)
(* max_results clamped to 1..50; they are, in the fused order, the first  *)
(* products that hydrate; with available_only no product whose catalog    *)
(* row has available = false is among them, and without it an unavailable *)
(* product keeps its place before the lower-ranked ones                   *)
C31_SearchProducts ==
    alast.op = "search_products" =>
       LET limit == Max(1, Min(alast.max_results, 50))
           hydrated == { id \in ProductIds : alast.rows[id].found }
           on_sale == { id \in hydrated : alast.rows[id].available }
           ranked == Restrict(alast.product_ids,
                              IF alast.available_only THEN on_sale ELSE hydrated)
       IN  /\ Len(alast.results) <= limit
           /\ alast.results = SubSeq(ranked, 1, Min(limit, Len(ranked)))


-----------------------------------------------------------------------------
(* The filter loop of search_products_v2 *)

PricedRow(available, price_min, price_max, variants) ==
    [found |-> TRUE, available |-> available, price_min |-> price_min, price_max |-> price_max,
     variants |-> variants]

MissingPriced == [found |-> FALSE, available |-> FALSE, price_min |-> NULL, price_max |-> NULL,
                  variants |-> << >>]

PricedRows == { MissingPriced, PricedRow(TRUE, 500, 900, << >>), PricedRow(TRUE, NULL, NULL, << >>),
                PricedRow(FALSE, 1500, 1500, << >>), PricedRow(TRUE, 500, 500, << V1, V2 >>) }

BudgetMaxArgs == { NULL, 1000, 2000 }
BudgetMinArgs == { NULL, 1000 }

SetMin(S) == CHOOSE x \in S : \A y \in S : x <= y
SetMax(S) == CHOOSE x \in S : \A y \in S : x >= y

(* prices = [p for p in (_variant_price(v) for v in variants) if p is not None] *)
VariantPrices(product) ==
    { _variant_price(product.variants[i]) : i \in 1..Len(product.variants) } \ { NULL }

(* "price_min" and "price_max" of _product_summary *)
SummaryPriceMin(product) ==
    LET prices == VariantPrices(product)
        price_min == _to_cents(product.price_min, TRUE)
    IN  IF prices = {} THEN price_min
        ELSE IF price_min = NULL THEN SetMin(prices) ELSE Min(price_min, SetMin(prices))

SummaryPriceMax(product) ==
    LET prices == VariantPrices(product)
        price_max == _to_cents(product.price_max, TRUE)
    IN  IF prices = {} THEN price_max
        ELSE IF price_max = NULL THEN SetMax(prices) ELSE Max(price_max, SetMax(prices))

(* the budget tests made before the availability test *)
Disposition_budget_first(available_only, budget_max_cents, budget_min_cents, available, price_min, price_max, relevance) ==
    IF budget_max_cents # NULL /\ price_min # NULL /\ price_min > budget_max_cents THEN "over_budget"
    ELSE IF budget_min_cents # NULL /\ price_max # NULL /\ price_max < budget_min_cents
    THEN "over_budget"
    ELSE IF available_only /\ ~available THEN "unavailable"
    ELSE IF relevance <= 0 THEN "low_relevance"
    ELSE "scored"

(* what the loop does with one hydrated candidate: the counter it adds to, *)
(* or "scored"                                                            *)
Disposition(available_only, budget_max_cents, budget_min_cents, available, price_min, price_max, relevance) ==
    IF available_only /\ ~available THEN "unavailable"
    ELSE IF budget_max_cents # NULL /\ price_min # NULL /\ price_min > budget_max_cents
    THEN "over_budget"
    ELSE IF budget_min_cents # NULL /\ price_max # NULL /\ price_max < budget_min_cents
    THEN "over_budget"
    ELSE IF relevance <= 0 THEN "low_relevance"
    ELSE "scored"

NoneExcluded == [over_budget |-> 0, unavailable |-> 0, low_relevance |-> 0]

(* the loop over product_ids, acc holding excluded_counts and scored *)
RECURSIVE FilterCandidates(_, _, _, _, _, _)
FilterCandidates(fused, rows, available_only, budget_max_cents, budget_min_cents, acc) ==
    IF fused = << >> THEN acc
    ELSE LET product == rows[Head(fused).product_id]
             price_min == SummaryPriceMin(product)
             price_max == SummaryPriceMax(product)
             available == SummaryAvailable(product)
             d == Disposition(available_only, budget_max_cents, budget_min_cents, available,
                              price_min, price_max, Head(fused).score)
             rest == Tail(fused)
         IN  IF ~product.found
             THEN FilterCandidates(rest, rows, available_only, budget_max_cents, budget_min_cents, acc)
             ELSE IF d = "scored"
             THEN FilterCandidates(rest, rows, available_only, budget_max_cents, budget_min_cents,
                     [acc EXCEPT !.scored = Append(@, [product_id |-> Head(fused).product_id,
                                                       price_min |-> price_min,
                                                       price_max |-> price_max,
                                                       available |-> available])])
             ELSE FilterCandidates(rest, rows, available_only, budget_max_cents, budget_min_cents,
                     [acc EXCEPT !.excluded_counts[d] = @ + 1])

(* the orders scored.sort can leave the rows in: the sort keys are built *)
(* of float scores of text signals, any order is taken to be possible    *)
Orderings(rows) ==
    { [i \in 1..Len(rows) |-> rows[p[i]]] :
        p \in { q \in [1..Len(rows) -> 1..Len(rows)] :
                  \A i \in 1..Len(rows) : \A j \in 1..Len(rows) : i # j => q[i] # q[j] } }

(* the fts ranking of a candidate order *)
RankingOf(order) == [i \in 1..Len(order) |-> [product_id |-> order[i], rank |-> i]]

V2Limits == { 1, _MAX_V2_RESULTS }

SearchProductsV2 ==
    /\ alast.op = "none"
    /\ \E order \in FusedOrders, rows \in [ProductIds -> PricedRows], limit \in V2Limits,
          available_only \in BOOLEAN, budget_max_cents \in BudgetMaxArgs,
          budget_min_cents \in BudgetMinArgs :
          \E fused \in { _rrf_fuse(<< << >>, RankingOf(order) >>, 120) } :
          \E acc \in { FilterCandidates(fused, rows, available_only, budget_max_cents,
                                        budget_min_cents,
                                        [excluded_counts |-> NoneExcluded, scored |-> << >>]) } :
          \E sorted \in Orderings(acc.scored) :
             alast' = [op |-> "search_products_v2", fused |-> fused, rows |-> rows,
                       limit |-> limit, available_only |-> available_only,
                       budget_max_cents |-> budget_max_cents,
                       budget_min_cents |-> budget_min_cents,
                       excluded_counts |-> acc.excluded_counts, scored |-> acc.scored,
                       results |-> SubSeq(sorted, 1,
                                          Min(Len(sorted), Max(1, Min(limit, _MAX_V2_RESULTS))))]
    /\ UNCHANGED << basketVars, cacheVars, resolveVars, dispatchVars, fuseVars, variantVars,
                    rankVars, endpointVars, taskVars, embedVars, searchVars >>

NextFilter == SearchProductsV2

SpecFilter == InitApply /\ [][NextFilter]_vars

(* how many hydrated candidates of the last search satisfy a test *)
Hydrated == { i \in 1..Len(alast.fused) : alast.rows[alast.fused[i].product_id].found }

OverBudget(price_min, price_max) ==
    \/ alast.budget_max_cents # NULL /\ price_min # NULL /\ price_min > alast.budget_max_cents
    \/ alast.budget_min_cents # NULL /\ price_max # NULL /\ price_max < alast.budget_min_cents

-----------------------------------------------------------------------------
(* format_payload: the normalisation of the values a tool returns *)

(* Python values: None, bool, int, float (held in hundredths), str, list, *)
(* and dict as a sequence of items in insertion order                     *)
PNull == [t |-> "null"]
PBool(b) == [t |-> "bool", b |-> b]
PInt(n) == [t |-> "int", n |-> n]
PFloat(hundredths) == [t |-> "float", hundredths |-> hundredths]
PStr(s) == [t |-> "str", s |-> s]
PList(elems) == [t |-> "list", items |-> elems]
PMap(pairs) == [t |-> "map", pairs |-> pairs]
PItem(key, value) == [key |-> key, value |-> value]

_OMIT == [t |-> "omit"]

_ARRAY_KEY_HINTS ==
    { << "products" >>, << "results" >>, << "variants" >>, << "tags" >>, << "images" >>,
      << "top_", "tags" >>, << "product_types" >>, << "options" >>, << "values" >> }

(* key.lower(), a key being a sequence of word tokens *)
LowerKey(key) ==
    [i \in 1..Len(key) |-> CASE key[i] = "Price" -> "price"
                             [] key[i] = "Available" -> "available"
                             [] OTHER -> key[i]]

KeyContains(key, word) == \E i \in 1..Len(key) : LowerKey(key)[i] = word

(* Decimal(value.strip().replace(",", "")) of the strings of the model, in *)
(* hundredths; blank for a string that strips to nothing, ok = FALSE for   *)
(* one Decimal rejects                                                     *)
DecimalOf(s) ==
    CASE s = "12.50" -> [blank |-> FALSE, ok |-> TRUE, dot |-> TRUE, hundredths |-> 1250]
      [] s = " 7 " -> [blank |-> FALSE, ok |-> TRUE, dot |-> FALSE, hundredths |-> 700]
      [] s = "1,299" -> [blank |-> FALSE, ok |-> TRUE, dot |-> FALSE, hundredths |-> 129900]
      [] s = "" -> [blank |-> TRUE, ok |-> FALSE, dot |-> FALSE, hundredths |-> 0]
      [] s = " " -> [blank |-> TRUE, ok |-> FALSE, dot |-> FALSE, hundredths |-> 0]
      [] OTHER -> [blank |-> FALSE, ok |-> FALSE, dot |-> FALSE, hundredths |-> 0]

(* round() of a non-negative float: to the nearest integer, a half to even *)
RoundHalfEven(hundredths) ==
    LET q == hundredths \div 100
        r == hundredths % 100
    IN  IF r > 50 \/ (r = 50 /\ q % 2 = 1) THEN q + 1 ELSE q

(* to_integral_value(rounding=ROUND_HALF_UP) of a non-negative Decimal *)
RoundHalfUp(hundredths) == (hundredths + 50) \div 100

_price_to_cents(value, key) ==
    LET key_is_cents == KeyContains(key, "_cents")
    IN  CASE value.t = "bool" -> PInt(IF value.b THEN 1 ELSE 0)
          [] value.t = "int" -> value
          [] value.t = "float" ->
                IF key_is_cents THEN PInt(RoundHalfEven(value.hundredths))
                ELSE PInt(value.hundredths)
          [] value.t = "str" ->
                LET parsed == DecimalOf(value.s)
                IN  IF parsed.blank \/ ~parsed.ok THEN value
                    ELSE IF key_is_cents THEN PInt(RoundHalfUp(parsed.hundredths))
                    ELSE IF parsed.dot THEN PInt(parsed.hundredths)
                    ELSE PInt(parsed.hundredths \div 100)
          [] OTHER -> value

TrueWords == { "true", "t", "1", "yes", "y", "available", "in stock", "in_stock" }
FalseWords == { "false", "f", "0", "no", "n", "unavailable", "out of stock", "out_of_stock" }

(* value.strip().lower() of the strings of the model *)
StripLower(s) == CASE s = " 7 " -> "7" [] s = " " -> "" [] s = "Yes" -> "yes" [] OTHER -> s

(* _to_bool of formatters.py *)
_to_bool(value) ==
    CASE value.t = "bool" -> value
      [] value.t = "int" -> PBool(value.n # 0)
      [] value.t = "float" -> PBool(value.hundredths # 0)
      [] value.t = "str" ->
            IF StripLower(value.s) \in TrueWords THEN PBool(TRUE)
            ELSE IF StripLower(value.s) \in FalseWords THEN PBool(FALSE)
            ELSE PBool(value.s # "")
      [] value.t = "list" -> PBool(value.items # << >>)
      [] value.t = "map" -> PBool(value.pairs # << >>)
      [] OTHER -> PBool(FALSE)

NoKey == << >>

RECURSIVE _normalize(_, _, _)
RECURSIVE NormalizeItems(_, _)
RECURSIVE NormalizePairs(_, _)

(* the loop over value.items() *)
NormalizePairs(pairs, array_keys) ==
    IF pairs = << >> THEN << >>
    ELSE LET child_key == Head(pairs).key
             normalized == _normalize(Head(pairs).value, child_key, array_keys)
             rest == NormalizePairs(Tail(pairs), array_keys)
         IN  IF normalized = _OMIT
             THEN IF child_key \in array_keys
                  THEN << PItem(child_key, PList(<< >>)) >> \o rest
                  ELSE rest
             ELSE << PItem(child_key, normalized) >> \o rest

(* the loop over the items of a list *)
NormalizeItems(elems, array_keys) ==
    IF elems = << >> THEN << >>
    ELSE LET normalized_item == _normalize(Head(elems), NoKey, array_keys)
             rest == NormalizeItems(Tail(elems), array_keys)
         IN  IF normalized_item = _OMIT THEN rest ELSE << normalized_item >> \o rest

_normalize(value, key, array_keys) ==
    IF value.t = "null"
    THEN IF key # NoKey /\ key \in array_keys THEN PList(<< >>) ELSE _OMIT
    ELSE LET priced == IF key # NoKey /\ KeyContains(key, "price")
                       THEN _price_to_cents(value, key) ELSE value
             flagged == IF key # NoKey /\ KeyContains(key, "available")
                        THEN _to_bool(priced) ELSE priced
         IN  IF flagged.t = "map" THEN PMap(NormalizePairs(flagged.pairs, array_keys))
             ELSE IF flagged.t = "list" THEN PList(NormalizeItems(flagged.items, array_keys))
             ELSE flagged

(* format_payload(payload, array_keys) over plain values *)
FormattedPayload(payload, array_keys) ==
    LET normalized == _normalize(payload, NoKey, _ARRAY_KEY_HINTS \cup array_keys)
    IN  IF normalized = _OMIT THEN PMap(<< >>) ELSE normalized

PayloadKeys == { << "price" >>, << "sale_", "Price", "_cents" >>, << "Available" >>, << "tags" >>,
                 << "title" >> }

Scalars == { PNull, PBool(TRUE), PInt(5), PFloat(1250), PStr("12.50"), PStr("1,299"),
             PStr("sold out"), PStr(" "), PStr("Yes") }

Nested ==
    Scalars \cup { PList(<< >>) } \cup { PList(<< a >>) : a \in Scalars }
    \cup { PMap(<< PItem(k, a) >>) : k \in PayloadKeys, a \in Scalars }

Payloads ==
    Scalars \cup { PList(<< a, PNull >>) : a \in Nested }
    \cup { PMap(<< PItem(k, a) >>) : k \in PayloadKeys, a \in Nested }
    \cup { PMap(<< PItem(<< "title" >>, PNull), PItem(k, a) >>) : k \in PayloadKeys, a \in Scalars }

ArrayKeyArgs == { {}, { << "title" >> } }

FormatPayload ==
    /\ alast.op = "none"
    /\ \E payload \in Payloads, array_keys \in ArrayKeyArgs :
          alast' = [op |-> "format_payload", payload |-> payload, array_keys |-> array_keys,
                    formatted |-> FormattedPayload(payload, array_keys)]
    /\ UNCHANGED << basketVars, cacheVars, resolveVars, dispatchVars, fuseVars, variantVars,
                    rankVars, endpointVars, taskVars, embedVars, searchVars >>

NextFormat == FormatPayload

SpecFormat == InitApply /\ [][NextFormat]_vars

(* every value under a key holding "price" is an integer and every value *)
(* under a key holding "available" a boolean, in value and below it      *)
RECURSIVE TypedBelow(_)
TypedBelow(value) ==
    IF value.t = "map"
    THEN \A i \in 1..Len(value.pairs) :
            /\ KeyContains(value.pairs[i].key, "price") => value.pairs[i].value.t = "int"
            /\ KeyContains(value.pairs[i].key, "available") => value.pairs[i].value.t = "bool"
            /\ TypedBelow(value.pairs[i].value)
    ELSE IF value.t = "list"
    THEN \A i \in 1..Len(value.items) : TypedBelow(value.items[i])
    ELSE TRUE

(* C33: in a payload returned by format_payload, at every depth, the value *)
(* under a key whose name contains price is an integer and the value under *)
(* available or availability a boolean, whatever the type of the input     *)
C33_PricesAndFlagsTyped ==
    alast.op = "format_payload" => TypedBelow(alast.formatted)

(* no null in value or below it, and a list under every key of array_keys *)
RECURSIVE ListsBelow(_, _)
ListsBelow(value, array_keys) ==
    IF value.t = "map"
    THEN \A i \in 1..Len(value.pairs) :
            /\ value.pairs[i].value.t # "null"
            /\ value.pairs[i].key \in array_keys => value.pairs[i].value.t = "list"
            /\ ListsBelow(value.pairs[i].value, array_keys)
    ELSE IF value.t = "list"
    THEN \A i \in 1..Len(value.items) :
            /\ value.items[i].t # "null"
            /\ ListsBelow(value.items[i], array_keys)
    ELSE value.t # "null"

(* C34: in a payload returned by format_payload no key of a map and no    *)
(* element of a list carries null, and every key of the array hints, the  *)
(* built-in ones and the caller's array_keys, carries a list              *)
C34_NoNullAndLists ==
    alast.op = "format_payload" =>
       ListsBelow(alast.formatted, _ARRAY_KEY_HINTS \cup alast.array_keys)


-----------------------------------------------------------------------------
(* The product URL of _product_summary *)

RawUrls ==
    { NoneText, << >>, << " " >>, << "/", "products/tee" >>, << "products/cap" >>, << "p" >>,
      << " ", "/", "p", " " >>, << "/", "a", "/", "b" >>, << "/", "/", "cdn.example", "/", "x" >>,
      << "https://", "b.example", "/", "p/tee" >>, << "HTTPS://", "B.example" >>,
      << "http://", "x" >> }

(* the url column of the store's row: NULL, blank, or an absolute URL *)
StoreUrlColumns ==
    { NoneText, << >>, << " " >>, << "https://", "a.example" >>, << "https://", "a.example", "/" >>,
      << " ", "https://", "a.example", "/", "/", " " >>, << "http://", "c.example" >>,
      << "https://", "a.example", "/", "shop", "/" >> }

(* the stores table of a call: the row of store a, or no row *)
StoreTables == { {} } \cup { { [slug |-> A, url |-> u] } : u \in StoreUrlColumns }

(* url, product_url and link of the summary of a product of store a *)
ProductUrl ==
    /\ alast.op = "none"
    /\ \E raw_url \in RawUrls, S \in StoreTables :
          \E store_url \in { _store_url_for_slug(S, A) } :
             alast' = [op |-> "product_url", raw_url |-> raw_url, stores |-> S,
                       store_url |-> store_url,
                       url |-> _canonical_product_url(raw_url, store_url)]
    /\ UNCHANGED << basketVars, cacheVars, resolveVars, dispatchVars, fuseVars, variantVars,
                    rankVars, endpointVars, taskVars, embedVars, searchVars >>

NextUrl == ProductUrl

SpecUrl == InitApply /\ [][NextUrl]_vars

IsAbsoluteUrl(url) ==
    /\ url # << >>
    /\ \/ Head(url) \in { "http://", "https://", "HTTPS://" }
       \/ Len(url) >= 3 /\ url[1] = "https:" /\ url[2] = "/" /\ url[3] = "/"

(* C35: every product URL emitted is the empty string or an absolute URL, *)
(* a relative catalog URL being resolved against the store's base URL,    *)
(* also for a store whose base URL is missing or empty                    *)
C35_ProductUrlAbsolute ==
    alast.op = "product_url" => alast.url = << >> \/ IsAbsoluteUrl(alast.url)


-----------------------------------------------------------------------------
(* _embed_query_cached: the query embedding and its cache *)

EmbedCacheSize == 5000
EmbedCacheTtl == 900

MaxEmbedSearches == 3
MaxEmbedTicks == 3

EmbedQueries == { << "tee" >>, << " ", "Tee" >>, << "Tee", " " >>, << "cap" >>, << " " >> }

(* the vector the embedding service returns for a text *)
EmbeddingOf(query_text) ==
    CASE query_text = << "tee" >> -> "vector of tee"
      [] query_text = << " ", "Tee" >> -> "vector of _Tee"
      [] query_text = << "Tee", " " >> -> "vector of Tee_"
      [] OTHER -> "vector of cap"

(* the key built of the text as it was given *)
EmbedKey_as_given(query_text) == << "embed:" >> \o query_text

(* f"embed:{query_text.strip().lower()}" *)
EmbedKey(query_text) == << "embed:" >> \o LowerText(Strip(query_text))

(* QueryEmbedder.embed_query: the vector, or "raised" for an empty query *)
(* and for a request to the service that fails                           *)
embed_query(query_text, service) ==
    IF Strip(query_text) = << >> THEN "raised"
    ELSE IF service = "fails" THEN "raised"
    ELSE EmbeddingOf(query_text)

(* what one call leaves: the cache, the value returned ("raised" when the *)
(* exception of embed_query leaves the function), and whether the         *)
(* embedder was called and the cache read and written                     *)
_embed_query_cached(enabled, store, now, query_text, service) ==
    LET cache == TTLCache_init(Max(100, EmbedCacheSize), Max(60, EmbedCacheTtl))
        key == EmbedKey(query_text)
        cached == TTLCache_get(store, now, key)
        vector == embed_query(query_text, service)
    IN  IF ~enabled
        THEN [store |-> store, result |-> None, called |-> FALSE, read |-> FALSE, wrote |-> FALSE]
        ELSE IF cached.value # None
        THEN [store |-> cached.store, result |-> cached.value, called |-> FALSE, read |-> TRUE,
              wrote |-> FALSE]
        ELSE IF vector = "raised"
        THEN [store |-> cached.store, result |-> "raised", called |-> TRUE, read |-> TRUE,
              wrote |-> FALSE]
        ELSE [store |-> TTLCache_set(cached.store, now, cache.max.size, cache.ttl.seconds, key,
                                     vector),
              result |-> vector, called |-> TRUE, read |-> TRUE, wrote |-> TRUE]

(* a query text trimmed and lowercased *)
NormalQuery(query_text) == LowerText(Strip(query_text))

(* a vector was stored for the query and its time to live has not run out *)
FreshlyStored(stored, now, query) ==
    /\ query \in DOMAIN stored
    /\ now < stored[query].at + Max(60, EmbedCacheTtl)

(* one search embedding its query *)
EmbedQuery ==
    /\ embeds.searches < MaxEmbedSearches
    /\ \E query_text \in EmbedQueries, service \in { "answers", "fails" } :
          \E r \in { _embed_query_cached(embeds.enabled, embeds.store, embeds.now, query_text,
                                         service) } :
             embeds' = [embeds EXCEPT
                          !.store = r.store,
                          !.calls = @ + (IF r.called THEN 1 ELSE 0),
                          !.reads = @ + (IF r.read THEN 1 ELSE 0),
                          !.writes = @ + (IF r.wrote THEN 1 ELSE 0),
                          !.searches = @ + 1,
                          !.stored = IF r.wrote
                                     THEN Put(@, NormalQuery(query_text),
                                              [at |-> embeds.now, vector |-> r.result])
                                     ELSE @,
                          !.last = [op |-> "embed", query_text |-> query_text,
                                    key |-> EmbedKey(query_text), result |-> r.result,
                                    called |-> r.called,
                                    fresh |-> FreshlyStored(embeds.stored, embeds.now,
                                                            NormalQuery(query_text)),
                                    vector |-> IF NormalQuery(query_text) \in DOMAIN embeds.stored
                                               THEN embeds.stored[NormalQuery(query_text)].vector
                                               ELSE None]]
    /\ UNCHANGED << basketVars, cacheVars, resolveVars, dispatchVars, fuseVars, variantVars,
                    rankVars, endpointVars, applyVars, taskVars, searchVars >>

(* time passes, half a time to live at a time *)
EmbedTick ==
    /\ embeds.now < MaxEmbedTicks * (Max(60, EmbedCacheTtl) \div 2)
    /\ embeds' = [embeds EXCEPT !.now = @ + Max(60, EmbedCacheTtl) \div 2]
    /\ UNCHANGED << basketVars, cacheVars, resolveVars, dispatchVars, fuseVars, variantVars,
                    rankVars, endpointVars, applyVars, taskVars, searchVars >>

InitEmbed ==
    /\ BasketIdle /\ CacheIdle /\ ResolveIdle /\ DispatchIdle /\ FuseIdle /\ VariantIdle
    /\ RankIdle /\ EndpointIdle /\ ApplyIdle /\ TaskIdle /\ SearchIdle
    /\ \E enabled \in BOOLEAN : embeds = EmbedStart(enabled)

NextEmbed == EmbedQuery \/ EmbedTick

SpecEmbed == InitEmbed /\ [][NextEmbed]_vars

(* C39: once a query was embedded successfully, a later search within the *)
(* embedding time to live whose query is the same after trimming and      *)
(* lowercasing gets the stored vector from the cache and the embedder is  *)
(* not called; a failed embedding stores nothing; with the embedder       *)
(* disabled it is never called and the cache neither read nor written     *)
C39_EmbeddingCached ==
    /\ (embeds.last.op = "embed" /\ embeds.enabled /\ embeds.last.fresh)
          => ~embeds.last.called /\ embeds.last.result = embeds.last.vector
    /\ (embeds.last.op = "embed" /\ embeds.last.result = "raised")
          => /\ embeds.last.key \notin KeysOf(embeds.store)
             /\ embeds.last.called
    /\ \A i \in 1..Len(embeds.store) :
          \E query \in DOMAIN embeds.stored :
             /\ embeds.store[i].key = << "embed:" >> \o query
             /\ embeds.store[i].value = embeds.stored[query].vector
             /\ embeds.store[i].value # "raised"
    /\ ~embeds.enabled
          => /\ embeds.calls = 0 /\ embeds.reads = 0 /\ embeds.writes = 0
             /\ embeds.store = << >>
             /\ embeds.last.result = None

C39_Witness ==
    /\ embeds.enabled
    /\ embeds.last.op = "embed" /\ embeds.last.fresh /\ ~embeds.last.called
    /\ embeds.last.query_text = << "Tee", " " >>
    /\ embeds.last.result = "vector of _Tee"
    /\ embeds.now > 0
    /\ embeds.calls = 2


-----------------------------------------------------------------------------
(* Basket tools running concurrently.  A tool call is a task; it gives    *)
(* way to the other tasks at every awaited statement, so one step of a    *)
(* task is one statement on the tables, made with what the task read in   *)
(* its earlier steps.                                                     *)

MaxTasks == 2

(* the tables the tasks start on: basket 1 of store a, active, one line *)
TaskTables ==
    _add_to_basket(NoTables, Stores("full"), Products("full"), "tee", 1, NoOptions, V1.id,
                   NoBasket, A, NoneText).db

(* the id of that basket *)
TaskBasket == Len(TaskTables.baskets)

TaskAdds == { Item("tee", 1, V1.id, NoOptions), Item("cap", 1, NoneText, NoOptions),
              Item("zzz", 1, NoneText, NoOptions) }

TaskUpdates == { [variant_id |-> V1.id, quantity |-> 0], [variant_id |-> V1.id, quantity |-> 5],
                 [variant_id |-> << "v9" >>, quantity |-> 2] }

NoLine == [variant_id |-> << >>]

Task(kind, pc, code, line, variant_id, quantity, mark, url) ==
    [kind |-> kind, pc |-> pc, code |-> code, basket_id |-> TaskBasket, line |-> line,
     variant_id |-> variant_id, quantity |-> quantity, mark |-> mark, url |-> url]

(* _add_to_basket up to _ensure_basket: the reads of the catalog, ending *)
(* in an error or in the line to insert                                  *)
PendingLine(req) ==
    LET o == _add_to_basket(NoTables, Stores(catalog), Products(catalog), req.handle,
                            req.quantity, req.options, req.variant_id, NoBasket, A, NoneText)
    IN  IF o.code = "ok" THEN [code |-> "ok", line |-> o.db.items[1][1]]
        ELSE [code |-> o.code, line |-> NoLine]

TaskStep(t, task) ==
    /\ tasks' = [tasks EXCEPT ![t] = task]
    /\ UNCHANGED << catalog, last, largs, calls, cacheVars, resolveVars, dispatchVars, fuseVars,
                    variantVars, rankVars, endpointVars, applyVars, embedVars, searchVars >>

TaskStart(task) ==
    /\ Len(tasks) < MaxTasks
    /\ tasks' = Append(tasks, task)
    /\ UNCHANGED << basketVars, cacheVars, resolveVars, dispatchVars, fuseVars,
                    variantVars, rankVars, endpointVars, applyVars, embedVars, searchVars >>

(* add_to_basket(basket_id = 1, slug = "a") up to the selected variant *)
AddLookup ==
    \E req \in TaskAdds :
       \E p \in { PendingLine(req) } :
          TaskStart(Task("add", IF p.code = "ok" THEN "ensure" ELSE "done", p.code, p.line,
                         NoneText, 0, FALSE, EmptyUrl))

(* await _ensure_basket: the select of the basket's row and its tests *)
AddEnsure(t) ==
    /\ tasks[t].kind = "add" /\ tasks[t].pc = "ensure"
    /\ \E e \in { _ensure_basket(DB, A, tasks[t].basket_id) } :
          TaskStep(t, IF e.ok THEN [tasks[t] EXCEPT !.pc = "insert"]
                      ELSE [tasks[t] EXCEPT !.pc = "done", !.code = "basket_scope_error"])
    /\ UNCHANGED << baskets, items >>

(* await pool.execute(insert into basket_items ... on conflict do update) *)
AddInsert(t) ==
    /\ tasks[t].kind = "add" /\ tasks[t].pc = "insert"
    /\ \E after \in { UpsertLine(DB, tasks[t].basket_id, tasks[t].line) } :
          /\ WithinBounds(after)
          /\ baskets' = after.baskets /\ items' = after.items
    /\ TaskStep(t, [tasks[t] EXCEPT !.pc = "fetch"])

(* update_basket_item(basket_id = 1, slug = "a"): await _resolve_basket_scope *)
UpdateScope ==
    \E req \in TaskUpdates :
       \E sc \in { _resolve_basket_scope(DB, Stores(catalog), Products(catalog), TaskBasket, A,
                                         NoneText, FALSE) } :
          TaskStart(Task("update", IF sc.ok THEN "write" ELSE "done",
                         IF sc.ok THEN "ok" ELSE "basket_scope_error", NoLine,
                         req.variant_id, req.quantity, FALSE, EmptyUrl))

(* await pool.execute(delete from basket_items ...) or (update basket_items ...) *)
UpdateWrite(t) ==
    /\ tasks[t].kind = "update" /\ tasks[t].pc = "write"
    /\ \E o \in { UpdateLine(DB, Strip(tasks[t].variant_id), tasks[t].quantity,
                             [ok |-> TRUE, id |-> tasks[t].basket_id, slug |-> A]) } :
          /\ baskets' = o.db.baskets /\ items' = o.db.items
          /\ TaskStep(t, IF o.code = "basket_line_not_found"
                         THEN [tasks[t] EXCEPT !.pc = "done", !.code = o.code]
                         ELSE [tasks[t] EXCEPT !.pc = "fetch"])

(* create_checkout_intent(basket_id = 1, slug = "a"): await _resolve_basket_scope *)
CheckoutScope ==
    \E mark_checked_out \in BOOLEAN :
       \E sc \in { _resolve_basket_scope(DB, Stores(catalog), Products(catalog), TaskBasket, A,
                                         NoneText, TRUE) } :
          TaskStart(Task("checkout", IF sc.ok THEN "read" ELSE "done",
                         IF sc.ok THEN "ok" ELSE "basket_scope_error", NoLine, NoneText, 0,
                         mark_checked_out, EmptyUrl))

(* await _fetch_basket and await _store_meta_for_slug, then the URL built *)
(* of the lines that were read                                            *)
CheckoutRead(t) ==
    /\ tasks[t].kind = "checkout" /\ tasks[t].pc = "read"
    /\ \E basket_payload \in { _fetch_basket(DB, tasks[t].basket_id, A) } :
       \E store_meta \in _store_meta_for_slug(Stores(catalog), A) :
       \E checkout_url \in { _shopify_checkout_url(store_meta.url, basket_payload.items) } :
          TaskStep(t, IF basket_payload.items = << >>
                      THEN [tasks[t] EXCEPT !.pc = "done", !.code = "empty_basket"]
                      ELSE IF checkout_url = EmptyUrl
                      THEN [tasks[t] EXCEPT !.pc = "done", !.code = "checkout_url_build_failed"]
                      ELSE [tasks[t] EXCEPT !.pc = "persist", !.url = checkout_url])
    /\ UNCHANGED << baskets, items >>

(* await _set_basket_checkout *)
CheckoutPersist(t) ==
    /\ tasks[t].kind = "checkout" /\ tasks[t].pc = "persist"
    /\ \E after \in { _set_basket_checkout(DB, tasks[t].basket_id, tasks[t].url, tasks[t].mark) } :
          baskets' = after.baskets /\ items' = after.items
    /\ TaskStep(t, [tasks[t] EXCEPT !.pc = "fetch"])

(* await _fetch_basket of the refreshed basket, and the reply *)
TaskReply(t) ==
    /\ tasks[t].pc = "fetch"
    /\ TaskStep(t, [tasks[t] EXCEPT !.pc = "done",
                       !.code = IF _fetch_basket(DB, tasks[t].basket_id, A) = NoPayload
                                THEN "raise" ELSE "ok"])
    /\ UNCHANGED << baskets, items >>

InitTasks ==
    /\ catalog = "full"
    /\ baskets = TaskTables.baskets /\ items = TaskTables.items
    /\ calls = 0 /\ largs = NoArgs
    /\ last = [op |-> "init", basket_id |-> NoBasket, mark |-> FALSE, code |-> "ok",
               store_slug |-> << >>, result_basket_id |-> NoBasket, payload |-> NoPayload,
               checkout_url |-> EmptyUrl, line_index |-> 0, added_count |-> 0,
               product_urls |-> << >>]
    /\ CacheIdle /\ ResolveIdle /\ DispatchIdle /\ FuseIdle /\ VariantIdle /\ RankIdle
    /\ EndpointIdle /\ ApplyIdle /\ TaskIdle /\ EmbedIdle /\ SearchIdle

NextTasks ==
    \/ AddLookup
    \/ UpdateScope
    \/ CheckoutScope
    \/ \E t \in 1..Len(tasks) :
          \/ AddEnsure(t)
          \/ AddInsert(t)
          \/ UpdateWrite(t)
          \/ CheckoutRead(t)
          \/ CheckoutPersist(t)
          \/ TaskReply(t)

SpecTasks == InitTasks /\ [][NextTasks]_vars

(* C36: under every interleaving of concurrent tool calls at their awaited *)
(* statements, no line of a basket is inserted, updated or deleted once    *)
(* the basket's status is checked_out                                      *)
C36_NoWriteAfterCheckout ==
    [][\A b \in 1..Len(baskets) :
          baskets[b].status = "checked_out" => items'[b] = items[b]]_vars

(* C37: whenever a basket is checked_out, its stored checkout_url is the *)
(* URL of the lines the basket has, under every interleaving of tasks    *)
(* that change lines with the read, build and persist steps of           *)
(* create_checkout_intent                                                *)
C37_CheckoutUrlOfCurrentLines ==
    \A b \in 1..Len(baskets) :
       baskets[b].status = "checked_out" =>
          \A store_meta \in _store_meta_for_slug(Stores(catalog), Strip(baskets[b].store_slug)) :
             baskets[b].checkout_url =
                _shopify_checkout_url(store_meta.url,
                                      _fetch_basket(DB, b, baskets[b].store_slug).items)

====
